---- MODULE Spec2Model ----
(***************************************************************************)
(* Model of the brokerage-flow / quant-signal classification engine of     *)
(* backend/app.py: detect_brokerage_flow, generate_quant_warning and the   *)
(* sentiment blending of get_full_analysis.                                *)
(*                                                                         *)
(* Numbers.  The code works on floats.  Every float quantity (percent      *)
(* change, volume ratio, RSI, probability in percent, ...) is modelled as  *)
(* an integer number of hundredths, so 3.5 is 350, 0.85 is 85 and 65.0 %   *)
(* is 6500.  Every threshold of the code is a multiple of one hundredth,   *)
(* so comparisons are exact on this grid.                                  *)
(***************************************************************************)
EXTENDS Integers, Sequences, FiniteSets, TLC

VARIABLES
    pc,             \* position of the one request being served
    flow_args,      \* arguments of the detect_brokerage_flow call
    broker_flow,    \* dict returned by detect_brokerage_flow
    warn_args,      \* arguments of the generate_quant_warning call
    details,        \* generate_quant_warning's local list 'details' at return
    main_warning,   \* dict returned by generate_quant_warning
    analysis_env,   \* what the providers answer to the get_full_analysis request
    analysis,       \* locals of get_full_analysis when it returns
    response,       \* JSON answer of get_full_analysis
    flow_prev,      \* the detect_brokerage_flow call before the current one
    warn_prev,      \* the generate_quant_warning call before the current one
    news_feed,      \* what the news provider answers to _get_news_sentiment_score
    news_result,    \* tuple returned by _get_news_sentiment_score
    forecast_env,   \* what the forecast_advanced request meets
    forecast_response, \* answer of forecast_advanced
    _sector_cache,  \* "none", or the cached entry: "data", or "empty" with no sector
    sector_fresh,   \* _sector_last_fetch is less than SECTORS_CACHE_TTL old
    _sector_fetch_in_progress,
    _sector_fetch_lock,  \* the request holding the lock, 0 when it is free
    sector_proc,    \* the /api/sectors requests under way or answered
    sector_threads, \* how many refresh threads are at each point of their code
    connected,      \* clients connected to the namespace /ws/broker-summary
    active_subscriptions, \* per symbol: whether the key is there, and its set of clients
    broadcast_timers,     \* the keys of broadcast_timers
    broadcast_loop, \* per symbol: the background task and the rounds it has made
    emptied,        \* symbols whose set a handler found empty and has yet to delete
    emitted,        \* what broadcast_broker_summary sent in the last step, and to whom
    _news_cache,    \* per stock code: whether the key is there, and the list cached
    _news_last_fetch,     \* per stock code: whether the key is there, and the time
    news_now,       \* datetime.now() of _get_news_with_cache, in periods of 3 hours
    news_call,      \* the last call of _get_news_with_cache: what it met, did and returned
    _dynamics_cache,      \* the result cached by get_market_dynamics, if any
    _dynamics_last_fetch, \* the time of that result, if any
    dynamics_now,   \* datetime.now() of get_market_dynamics, in periods of 12 hours
    dynamics_call   \* the last request of get_market_dynamics

flow_vars == <<flow_args, broker_flow, flow_prev>>

warn_vars == <<warn_args, details, main_warning, warn_prev>>

analysis_vars == <<analysis_env, analysis, response>>

news_vars == <<news_feed, news_result>>

forecast_vars == <<forecast_env, forecast_response>>

sector_vars ==
    <<_sector_cache, sector_fresh, _sector_fetch_in_progress, _sector_fetch_lock,
      sector_proc, sector_threads>>

socket_vars ==
    <<connected, active_subscriptions, broadcast_timers, broadcast_loop, emptied, emitted>>

newscache_vars == <<_news_cache, _news_last_fetch, news_now, news_call>>

dynamics_vars == <<_dynamics_cache, _dynamics_last_fetch, dynamics_now, dynamics_call>>

service_vars == <<sector_vars, socket_vars, newscache_vars, dynamics_vars>>

core_vars == <<pc, flow_vars, warn_vars, analysis_vars, news_vars, forecast_vars>>

\* what the sector functions leave alone
sector_frame == <<core_vars, socket_vars, newscache_vars, dynamics_vars>>

\* what the socket handlers leave alone
socket_frame == <<core_vars, sector_vars, newscache_vars, dynamics_vars>>

\* what _get_news_with_cache leaves alone
newscache_frame == <<core_vars, sector_vars, socket_vars, dynamics_vars>>

\* what get_market_dynamics leaves alone
dynamics_frame == <<core_vars, sector_vars, socket_vars, newscache_vars>>

vars == <<pc, flow_vars, warn_vars, analysis_vars, news_vars, forecast_vars, service_vars>>

(***************************************************************************)
(* Bounds of the input grids.                                              *)
(***************************************************************************)
\* inputs are taken at every threshold of the code and up to Delta
\* hundredths below and above it
Delta == 1

Abs(x) == IF x < 0 THEN -x ELSE x

Around(S) == {t + d : t \in S, d \in -Delta..Delta}

\* a threshold tested with '>' and the values up to Delta above it
Above(S) == {t + d : t \in S, d \in 0..Delta}

\* a threshold tested with '<' and the values up to Delta below it
Below(S) == {t - d : t \in S, d \in 0..Delta}

Min(a, b) == IF a < b THEN a ELSE b

Max(a, b) == IF a > b THEN a ELSE b

\* '{x:.1f}' of a non-negative quantity: hundredths rounded to tenths,
\* ties to even (the result is a number of tenths)
Format1f(x) ==
    LET q == x \div 10
        r == x % 10
    IN  IF r < 5 THEN q
        ELSE IF r > 5 THEN q + 1
        ELSE IF q % 2 = 0 THEN q ELSE q + 1

(***************************************************************************)
(* detect_brokerage_flow                                                   *)
(***************************************************************************)
JumboVolume_ge(vol_ratio) == vol_ratio >= 300

\* condition of the first branch: if vol_ratio > 3.0
JumboVolume(vol_ratio) == vol_ratio > 300

DistributionRule_above_capitulation(change, vol_ratio) ==
    change < -150 /\ change >= -400 /\ vol_ratio > 150

\* condition of the sixth branch: elif change < -1.5 and vol_ratio > 1.5
DistributionRule(change, vol_ratio) == change < -150 /\ vol_ratio > 150

\* the if/elif chain of the phase detection; the result carries
\* phase, overall, confidence, warning and groups_desc
PhaseDetection(change, vol_ratio) ==
    IF JumboVolume(vol_ratio) THEN
        [phase |-> "TRANSAKSI JUMBO / BLOCK TRADE", overall |-> "STRONG BULLISH",
         confidence |-> 95,
         warning |-> "TRANSAKSI JUMBO TERDETEKSI - Crossing besar atau akumulasi masif whale",
         groups_desc |-> [text |-> "Volume spike ekstrim {vol_ratio:.1f}x normal. Indikasi strategic move / backdoor listing.",
                          vol_1f |-> Format1f(vol_ratio)]]
    ELSE IF change > 700 /\ vol_ratio > 180 THEN
        [phase |-> "MEGALODON MARKUP", overall |-> "EXTREME BULLISH",
         confidence |-> 92,
         warning |-> "Hati-hati Jebakan Bandar - harga naik gila tapi volume ekstrem (kemungkinan pump & dump)",
         groups_desc |-> [text |-> "Pembelian institusi sangat agresif (deviasi VWAP besar).", vol_1f |-> 0]]
    ELSE IF change > 350 /\ vol_ratio > 140 THEN
        [phase |-> "STRONG MARKUP", overall |-> "BULLISH",
         confidence |-> 88,
         warning |-> "Accumulation Phase Aman - whale masih beli agresif",
         groups_desc |-> [text |-> "Antrian beli institusi terlihat kuat.", vol_1f |-> 0]]
    ELSE IF change > 120 /\ vol_ratio > 110 THEN
        [phase |-> "MARKUP", overall |-> "MODERATE BULLISH",
         confidence |-> 75,
         warning |-> "Smart Money Entry Zone - institusi mulai akumulasi",
         groups_desc |-> [text |-> "Institusi masuk bertahap.", vol_1f |-> 0]]
    ELSE IF change > -120 /\ change < 120 /\ vol_ratio < 85 THEN
        [phase |-> "SILENT ACCUMULATION", overall |-> "NEUTRAL BULLISH",
         confidence |-> 82,
         warning |-> "AKUMULASI SENYAP - Iceberg order terdeteksi, whale kumpul diam-diam",
         groups_desc |-> [text |-> "Akumulasi senyap oleh smart money.", vol_1f |-> 0]]
    ELSE IF DistributionRule(change, vol_ratio) THEN
        [phase |-> "DISTRIBUTION", overall |-> "BEARISH",
         confidence |-> 85,
         warning |-> "Bandar Trap terdeteksi - distribusi terselubung oleh institusi",
         groups_desc |-> [text |-> "Distribusi oleh institusi.", vol_1f |-> 0]]
    ELSE IF change < -400 /\ vol_ratio > 170 THEN
        [phase |-> "CAPITULATION / MARKDOWN", overall |-> "EXTREME BEARISH",
         confidence |-> 90,
         warning |-> "Bull Trap risiko tinggi - harga jatuh dengan volume monster (retail panic)",
         groups_desc |-> [text |-> "Kapitulasi ritel, tekanan jual ekstrem.", vol_1f |-> 0]]
    ELSE
        [phase |-> "CONSOLIDATION", overall |-> "NEUTRAL",
         confidence |-> 68,
         warning |-> "WAIT AND SEE - pasar sedang ranging, tidak ada dominasi jelas",
         groups_desc |-> [text |-> "Pasar berkonsolidasi.", vol_1f |-> 0]]

status_map_markup_as_masuk(phase) ==
    CASE phase = "TRANSAKSI JUMBO / BLOCK TRADE" -> "TRANSAKSI JUMBO"
      [] phase = "MEGALODON MARKUP"              -> "SMART MONEY MASUK"
      [] phase = "STRONG MARKUP"                 -> "SMART MONEY MASUK"
      [] phase = "MARKUP"                        -> "SMART MONEY MASUK"
      [] phase = "SILENT ACCUMULATION"           -> "AKUMULASI SENYAP"
      [] phase = "DISTRIBUTION"                  -> "SMART MONEY KELUAR"
      [] phase = "CAPITULATION / MARKDOWN"       -> "KAPITULASI (PANIC)"
      [] phase = "CONSOLIDATION"                 -> "WAIT AND SEE"
      [] OTHER                                   -> "INSTITUSI / SMART MONEY"

\* status_map.get(phase, "INSTITUSI / SMART MONEY")
status_map(phase) ==
    CASE phase = "TRANSAKSI JUMBO / BLOCK TRADE" -> "TRANSAKSI JUMBO"
      [] phase = "MEGALODON MARKUP"              -> "SMART MONEY MASUK"
      [] phase = "STRONG MARKUP"                 -> "SMART MONEY MASUK"
      [] phase = "MARKUP"                        -> "DUKUNGAN INSTITUSI"
      [] phase = "SILENT ACCUMULATION"           -> "AKUMULASI SENYAP"
      [] phase = "DISTRIBUTION"                  -> "SMART MONEY KELUAR"
      [] phase = "CAPITULATION / MARKDOWN"       -> "KAPITULASI (PANIC)"
      [] phase = "CONSOLIDATION"                 -> "WAIT AND SEE"
      [] OTHER                                   -> "INSTITUSI / SMART MONEY"

WhaleStatus_no_phase(change, vol_ratio, phase) ==
    IF change > 350 THEN "MEGALODON / WHALE ENTRY"
    ELSE IF Abs(change) < 150 /\ vol_ratio < 90 THEN "WHALE ACCUMULATION"
    ELSE IF change < -300 THEN "WHALE DISTRIBUTION"
    ELSE "WHALE NEUTRAL"

\* broker_flow["whale"]["status"]
WhaleStatus(change, vol_ratio, phase) ==
    IF change > 350 \/ phase = "TRANSAKSI JUMBO / BLOCK TRADE" THEN "MEGALODON / WHALE ENTRY"
    ELSE IF Abs(change) < 150 /\ vol_ratio < 90 THEN "WHALE ACCUMULATION"
    ELSE IF change < -300 THEN "WHALE DISTRIBUTION"
    ELSE "WHALE NEUTRAL"

\* broker_flow["whale"]["desc"]
WhaleDesc(change, phase) ==
    IF change > 0 \/ phase = "TRANSAKSI JUMBO / BLOCK TRADE"
    THEN "Block trade & iceberg order aktif menyerap supply"
    ELSE "Algo HFT & Market Maker memicu stop loss ritel"

RetailStatus_no_volume(change, vol_ratio) ==
    IF change > 400 THEN "RITEL FOMO"
    ELSE IF change < -400 THEN "RITEL KAPITULASI"
    ELSE "RITEL BOSAN / WAIT AND SEE"

\* broker_flow["retail"]["status"]
RetailStatus(change, vol_ratio) ==
    IF change > 400 /\ vol_ratio > 160 THEN "RITEL FOMO"
    ELSE IF change < -400 THEN "RITEL KAPITULASI"
    ELSE "RITEL BOSAN / WAIT AND SEE"

\* broker_flow["retail"]["desc"]
RetailDesc(change) ==
    IF change > 350 THEN "Partisipasi ritel melonjak (FOMO)"
    ELSE "Panic selling ritel sedang terjadi"

detect_brokerage_flow_reads_vwap(current_change, volume_ratio, vwap_deviation) ==
    LET change    == current_change + vwap_deviation
        vol_ratio == volume_ratio
        p         == PhaseDetection(change, vol_ratio)
    IN  [phase             |-> p.phase,
         overall_sentiment |-> p.overall,
         confidence        |-> p.confidence,
         quant_warning     |-> p.warning,
         groups |-> [status |-> status_map(p.phase), desc |-> p.groups_desc],
         whale  |-> [status |-> WhaleStatus(change, vol_ratio, p.phase),
                     desc   |-> WhaleDesc(change, p.phase)],
         retail |-> [status |-> RetailStatus(change, vol_ratio),
                     desc   |-> RetailDesc(change)]]

\* the function: vwap_deviation is accepted and never read
detect_brokerage_flow(current_change, volume_ratio, vwap_deviation) ==
    LET change    == current_change
        vol_ratio == volume_ratio
        p         == PhaseDetection(change, vol_ratio)
    IN  [phase             |-> p.phase,
         overall_sentiment |-> p.overall,
         confidence        |-> p.confidence,
         quant_warning     |-> p.warning,
         groups |-> [status |-> status_map(p.phase), desc |-> p.groups_desc],
         whale  |-> [status |-> WhaleStatus(change, vol_ratio, p.phase),
                     desc   |-> WhaleDesc(change, p.phase)],
         retail |-> [status |-> RetailStatus(change, vol_ratio),
                     desc   |-> RetailDesc(change)]]

\* value of broker_flow before any call returned
NoFlow ==
    [phase |-> "", overall_sentiment |-> "", confidence |-> 0, quant_warning |-> "",
     groups |-> [status |-> "", desc |-> [text |-> "", vol_1f |-> 0]],
     whale  |-> [status |-> "", desc |-> ""],
     retail |-> [status |-> "", desc |-> ""]]

NoFlowArgs == [current_change |-> 0, volume_ratio |-> 0, vwap_deviation |-> 0]

\* percent changes the flow detector is called with
FlowChanges == Around({-400, -300, -150, -120, 0, 120, 150, 350, 400, 700}) \cup {800}

\* volume ratios the flow detector is called with
FlowVolumes == Around({85, 90, 110, 140, 150, 160, 170, 180, 300}) \cup {50, 100, 200}

FlowVwaps == {-250, 0, 130}

(***************************************************************************)
(* generate_quant_warning                                                  *)
(***************************************************************************)
\* ", ".join(brokers)
RECURSIVE JoinComma(_)
JoinComma(brokers) ==
    IF Len(brokers) = 0 THEN ""
    ELSE IF Len(brokers) = 1 THEN Head(brokers)
    ELSE Head(brokers) \o ", " \o JoinComma(Tail(brokers))

\* broker_activity is None (or an empty dict): a mapping with no key
NoBrokerActivity == [k \in {} |-> <<>>]

\* _get_brokers(kind): the codes listed under the kind, [] when there are none
_get_brokers(broker_activity, kind) ==
    IF DOMAIN broker_activity = {} THEN <<>>
    ELSE IF kind \notin DOMAIN broker_activity THEN <<>>
    ELSE IF broker_activity[kind] = <<>> THEN <<>>
    ELSE broker_activity[kind]

_append_detail_recolored(d, broker_activity, kind, level, message, color, icon) ==
    LET brokers == _get_brokers(broker_activity, kind)
        msg == IF brokers # <<>>
               THEN message \o " | Brokers: " \o JoinComma(brokers)
               ELSE message
    IN  Append(d, [level |-> level, message |-> msg,
                   color |-> IF brokers # <<>> THEN "danger" ELSE color,
                   icon |-> icon, brokers |-> brokers])

\* _append_detail(kind, level, message, color, icon), on the list d
_append_detail(d, broker_activity, kind, level, message, color, icon) ==
    LET brokers == _get_brokers(broker_activity, kind)
        msg == IF brokers # <<>>
               THEN message \o " | Brokers: " \o JoinComma(brokers)
               ELSE message
    IN  Append(d, [level |-> level, message |-> msg, color |-> color,
                   icon |-> icon, brokers |-> brokers])

\* 1. Return Forecast
ReturnForecast_ge(d, ba, expected_return) ==
    IF expected_return >= 4000 THEN
        _append_detail(d, ba, "return", "EXTREME BULLISH", "Waspadai Bull Trap - potensi pump & dump tinggi", "danger", "[WARN]")
    ELSE IF expected_return >= 2000 THEN
        _append_detail(d, ba, "return", "STRONG BULLISH", "Momentum kuat - konfirmasi dengan volume", "success", "chart-up")
    ELSE IF expected_return >= 800 THEN
        _append_detail(d, ba, "return", "MODERATE BULLISH", "Potensi upside sedang - monitor breakout", "primary", "arrow-up")
    ELSE IF expected_return < -4000 THEN
        _append_detail(d, ba, "return", "EXTREME BEARISH", "Capitulation tinggi - risiko crash lanjutan", "danger", "boom")
    ELSE IF expected_return < -2000 THEN
        _append_detail(d, ba, "return", "STRONG BEARISH", "Tekanan jual dominan - waspadai stop-loss cascade", "warning", "chart-down")
    ELSE IF expected_return < -800 THEN
        _append_detail(d, ba, "return", "MODERATE BEARISH", "Koreksi sedang - potensi rebound jika volume naik", "warning", "arrow-down")
    ELSE d

ReturnForecast(d, ba, expected_return) ==
    IF expected_return > 4000 THEN
        _append_detail(d, ba, "return", "EXTREME BULLISH", "Waspadai Bull Trap - potensi pump & dump tinggi", "danger", "[WARN]")
    ELSE IF expected_return > 2000 THEN
        _append_detail(d, ba, "return", "STRONG BULLISH", "Momentum kuat - konfirmasi dengan volume", "success", "chart-up")
    ELSE IF expected_return > 800 THEN
        _append_detail(d, ba, "return", "MODERATE BULLISH", "Potensi upside sedang - monitor breakout", "primary", "arrow-up")
    ELSE IF expected_return < -4000 THEN
        _append_detail(d, ba, "return", "EXTREME BEARISH", "Capitulation tinggi - risiko crash lanjutan", "danger", "boom")
    ELSE IF expected_return < -2000 THEN
        _append_detail(d, ba, "return", "STRONG BEARISH", "Tekanan jual dominan - waspadai stop-loss cascade", "warning", "chart-down")
    ELSE IF expected_return < -800 THEN
        _append_detail(d, ba, "return", "MODERATE BEARISH", "Koreksi sedang - potensi rebound jika volume naik", "warning", "arrow-down")
    ELSE d

\* 2. Volume Confirmation
VolumeConfirmation(d, ba, volume_ratio, expected_return) ==
    IF volume_ratio > 300 THEN
        _append_detail(d, ba, "volume", "MEGA VOLUME / BLOCK TRADE", "Deteksi Volume Monster - indikasi strategic move atau corporate action", "success", "whale")
    ELSE IF volume_ratio > 200 /\ expected_return > 1500 THEN
        _append_detail(d, ba, "volume", "VOLUME CONFIRMED", "Volume monster - momentum real, bukan fake breakout", "success", "fire")
    ELSE IF volume_ratio > 150 /\ expected_return < -1000 THEN
        _append_detail(d, ba, "volume", "HIGH VOLUME SELL-OFF", "Panic selling ritel - kemungkinan capitulation bottom", "warning", "wave")
    ELSE IF volume_ratio < 70 /\ Abs(expected_return) > 1000 THEN
        _append_detail(d, ba, "volume", "LOW VOLUME MOVE", "Hati-hati Jebakan Bandar - harga gerak tanpa volume konfirmasi", "danger", "trap")
    ELSE d

\* 3. RSI Overbought/Oversold
RsiExtremes(d, ba, rsi, expected_return) ==
    IF rsi > 7500 /\ expected_return > 0 THEN
        _append_detail(d, ba, "rsi", "RSI OVERBOUGHT", "Overbought - risiko koreksi tajam meski forecast bullish", "warning", "red-circle")
    ELSE IF rsi < 2500 /\ expected_return < 0 THEN
        _append_detail(d, ba, "rsi", "RSI OVERSOLD", "Oversold - potensi rebound kuat jika ada buyer masuk", "success", "green-circle")
    ELSE d

\* 4. Foreign Flow
ForeignFlow(d, ba, foreign_net_buy) ==
    IF foreign_net_buy > 10000 THEN
        _append_detail(d, ba, "foreign", "FOREIGN NET BUY KUAT", "Smart Money masuk - akumulasi whale asing", "success", "globe")
    ELSE IF foreign_net_buy < -10000 THEN
        _append_detail(d, ba, "foreign", "FOREIGN NET SELL", "Asing keluar - distribusi terselubung kemungkinan besar", "danger", "door")
    ELSE d

\* 5. Sentiment
SentimentRule(d, ba, sentiment_score) ==
    IF sentiment_score > 60 THEN
        _append_detail(d, ba, "sentiment", "SENTIMEN SANGAT POSITIF", "FOMO tinggi - waspadai over-hype", "success", "heart")
    ELSE IF sentiment_score < -60 THEN
        _append_detail(d, ba, "sentiment", "SENTIMEN SANGAT NEGATIF", "Panic tinggi - potensi capitulation bottom", "warning", "scream")
    ELSE d

\* 5. Volatility
VolatilityRule(d, ba, atr_ratio) ==
    IF atr_ratio > 180 THEN
        _append_detail(d, ba, "volatility", "VOLATILITAS EKSTREM", "ATR melonjak - risiko swing besar, hindari leverage", "danger", "tornado")
    ELSE d

\* the list 'details' when the rule groups have run, in the order appended
CollectDetails(a) ==
    LET ba == a.broker_activity
        d1 == ReturnForecast(<<>>, ba, a.expected_return)
        d2 == VolumeConfirmation(d1, ba, a.volume_ratio, a.expected_return)
        d3 == RsiExtremes(d2, ba, a.rsi, a.expected_return)
        d4 == ForeignFlow(d3, ba, a.foreign_net_buy)
        d5 == SentimentRule(d4, ba, a.sentiment_score)
    IN  VolatilityRule(d5, ba, a.atr_ratio)

\* priority_map.get(color, 999)
priority_map(color) ==
    CASE color = "danger"  -> 0
      [] color = "warning" -> 1
      [] color = "success" -> 2
      [] color = "primary" -> 3
      [] OTHER             -> 999

\* the sort key: lambda d: priority_map.get(d.get('color', ''), 999)
SortKey(d) == priority_map(d.color)

RECURSIVE InsertStable_before_equal(_, _)
InsertStable_before_equal(sorted, e) ==
    IF sorted = <<>> THEN <<e>>
    ELSE IF SortKey(Head(sorted)) < SortKey(e)
         THEN <<Head(sorted)>> \o InsertStable_before_equal(Tail(sorted), e)
         ELSE <<e>> \o sorted

\* one step of a stable sort: e goes behind every entry whose key is not larger
RECURSIVE InsertStable(_, _)
InsertStable(sorted, e) ==
    IF sorted = <<>> THEN <<e>>
    ELSE IF SortKey(Head(sorted)) <= SortKey(e)
         THEN <<Head(sorted)>> \o InsertStable(Tail(sorted), e)
         ELSE <<e>> \o sorted

SortDetails_skipped(d) == d

\* details.sort(key=...): list.sort is stable
RECURSIVE SortDetails(_)
SortDetails(d) ==
    IF d = <<>> THEN <<>>
    ELSE InsertStable(SortDetails(SubSeq(d, 1, Len(d) - 1)), d[Len(d)])

DetailsForUI_3(d) == SubSeq(d, 1, Min(3, Len(d)))

\* details[0:5]
DetailsForUI(d) == SubSeq(d, 1, Min(5, Len(d)))

\* [f"{icon} {message}" for d in details[1:3]]
SecondaryMessages_from_main(d) ==
    [i \in 1..Min(2, Len(d)) |-> d[i].icon \o " " \o d[i].message]

SecondaryMessages(d) ==
    [i \in 1..(Min(3, Len(d)) - 1) |-> d[i + 1].icon \o " " \o d[i + 1].message]

NeutralWarning_with_details ==
    [level |-> "NEUTRAL", message |-> "Pasar ranging - tidak ada sinyal kuat",
     color |-> "secondary", icon |-> "minus", brokers |-> <<>>,
     details |-> <<[level |-> "NEUTRAL", message |-> "Pasar ranging - tidak ada sinyal kuat",
                    color |-> "secondary", icon |-> "minus", brokers |-> <<>>]>>]

\* the NEUTRAL entry returned when no rule fired
NeutralWarning ==
    [level |-> "NEUTRAL", message |-> "Pasar ranging - tidak ada sinyal kuat",
     color |-> "secondary", icon |-> "minus", brokers |-> <<>>, details |-> <<>>]

\* Final Aggregation, on the sorted list; 'secondary' is a key of the result
\* only when more than one rule fired
FinalAggregation(d) ==
    LET main == d[1]
        mw == [level |-> main.level, message |-> main.message, color |-> main.color,
               icon |-> main.icon, brokers |-> main.brokers,
               details |-> DetailsForUI(d)]
    IN  IF Len(d) > 1
        THEN [k \in DOMAIN mw \cup {"secondary"} |->
                 IF k = "secondary" THEN SecondaryMessages(d) ELSE mw[k]]
        ELSE mw

\* the list 'details' when the function returns: sorted unless it is empty
SortedDetails(a) ==
    IF CollectDetails(a) = <<>> THEN <<>> ELSE SortDetails(CollectDetails(a))

\* the function: the dict it returns for the arguments a
generate_quant_warning(a) ==
    IF CollectDetails(a) = <<>>
    THEN NeutralWarning
    ELSE FinalAggregation(SortDetails(CollectDetails(a)))

\* value of main_warning before any call returned
NoWarning ==
    [level |-> "", message |-> "", color |-> "", icon |-> "", brokers |-> <<>>,
     details |-> <<>>]

NoWarnArgs ==
    [expected_return |-> 0, volume_ratio |-> 0, rsi |-> 0, foreign_net_buy |-> 0,
     sentiment_score |-> 0, atr_ratio |-> 0, broker_activity |-> NoBrokerActivity]

\* expected returns (percent) the warning generator is called with
WarnReturns ==
    Above({0, 800, 1000, 1500, 2000, 4000}) \cup Below({0, -800, -1000, -2000, -4000})
    \cup {4500}

\* volume ratios the warning generator is called with
WarnVolumes == Above({150, 200, 300}) \cup Below({70}) \cup {50, 100}

\* RSI values: neutral, and on and beyond the two thresholds
WarnRsis == {2499, 2500, 5000, 7500, 7501}

\* foreign net buy: none, and on and beyond the two thresholds
WarnForeigns == {-10001, -10000, 0, 10000, 10001}

\* sentiment scores: none, and on and beyond the two thresholds
WarnSentiments == {-61, -60, 0, 60, 61}

\* ATR ratios: normal, and on and beyond the threshold
WarnAtrs == {100, 180, 181}

\* broker_activity: None, or codes for some of the kinds
WarnBrokerActivities ==
    {NoBrokerActivity,
     [return |-> <<"YP">>, volume |-> <<"BRI", "CLS">>, foreign |-> <<>>]}

(***************************************************************************)
(* get_full_analysis: brokerage flow detection and ML sentiment            *)
(***************************************************************************)
\* round(x, 1): hundredths rounded to a whole number of tenths, ties to even
Round1(x) ==
    LET q == x \div 10
        r == x % 10
    IN  IF r < 5 THEN 10 * q
        ELSE IF r > 5 THEN 10 * (q + 1)
        ELSE IF q % 2 = 0 THEN 10 * q ELSE 10 * (q + 1)

\* the scanner request: the change of the first row, 0.0 when the answer has
\* no row, random.uniform(-2, 2) when the request or its decoding raises
FetchCurrentChange(tv) ==
    IF tv.kind = "data" THEN tv.value
    ELSE IF tv.kind = "no_data" THEN 0
    ELSE tv.value

FetchVolume_zeroed(yf) ==
    IF yf.kind = "bars" THEN [vol_ratio |-> yf.vol_ratio, vwap_dev |-> yf.vwap_dev]
    ELSE [vol_ratio |-> 0, vwap_dev |-> 0]

\* the 20-day history: volume ratio and VWAP deviation, (1.0, 0.0) when the
\* history is empty or the request raises
FetchVolume(yf) ==
    IF yf.kind = "bars" THEN [vol_ratio |-> yf.vol_ratio, vwap_dev |-> yf.vwap_dev]
    ELSE [vol_ratio |-> 100, vwap_dev |-> 0]

\* the boost applied after the first prediction
EarlyBoost(prob_up, status) ==
    IF status \in {"SMART MONEY MASUK", "AKUMULASI SENYAP", "DUKUNGAN INSTITUSI"}
    THEN Max(prob_up + 2000, 6500)
    ELSE prob_up

BaselineAfterRefit_keeps_boost(boosted_prob_up, raw_prob_up) == boosted_prob_up

\* prob_up = raw_prob_up, after the second fit: the boosted value is dropped
BaselineAfterRefit(boosted_prob_up, raw_prob_up) == raw_prob_up

FlowOverride_jumbo_as_others(prob_up, status) ==
    IF status \in {"SMART MONEY MASUK", "AKUMULASI SENYAP", "DUKUNGAN INSTITUSI", "TRANSAKSI JUMBO"}
    THEN Max(prob_up + 2000, 6500)
    ELSE IF status \in {"KAPITULASI (PANIC)", "WAIT AND SEE", "DANA BESAR KELUAR", "SMART MONEY KELUAR"}
    THEN Min(prob_up - 2000, 4000)
    ELSE prob_up

FlowOverride_wait_unchanged(prob_up, status) ==
    IF status \in {"SMART MONEY MASUK", "AKUMULASI SENYAP", "DUKUNGAN INSTITUSI", "TRANSAKSI JUMBO"}
    THEN IF status = "TRANSAKSI JUMBO"
         THEN Max(prob_up + 2500, 7000)
         ELSE Max(prob_up + 2000, 6500)
    ELSE IF status \in {"KAPITULASI (PANIC)", "DANA BESAR KELUAR", "SMART MONEY KELUAR"}
    THEN Min(prob_up - 2000, 4000)
    ELSE prob_up

\* Flow Analysis Override (Quant Overlay v3.1)
FlowOverride(prob_up, status) ==
    IF status \in {"SMART MONEY MASUK", "AKUMULASI SENYAP", "DUKUNGAN INSTITUSI", "TRANSAKSI JUMBO"}
    THEN IF status = "TRANSAKSI JUMBO"
         THEN Max(prob_up + 2500, 7000)
         ELSE Max(prob_up + 2000, 6500)
    ELSE IF status \in {"KAPITULASI (PANIC)", "WAIT AND SEE", "DANA BESAR KELUAR", "SMART MONEY KELUAR"}
    THEN Min(prob_up - 2000, 4000)
    ELSE prob_up

CatalystOverride_add(prob_up, news) ==
    IF news = "catalyst"
    THEN [prob_up |-> prob_up + 3500, has_catalyst |-> TRUE]
    ELSE [prob_up |-> prob_up, has_catalyst |-> FALSE]

\* Catalyst Override: the first of the five newest headlines that holds a
\* catalyst keyword lifts prob_up to at least 85; a failing request or
\* headline before it leaves prob_up alone
CatalystOverride(prob_up, news) ==
    IF news = "catalyst"
    THEN [prob_up |-> Max(prob_up, 8500), has_catalyst |-> TRUE]
    ELSE [prob_up |-> prob_up, has_catalyst |-> FALSE]

CapProb_upper_only(prob_up) == Min(prob_up, 9800)

\* final_bullish = min(max(prob_up, 5), 98)
CapProb(prob_up) == Min(Max(prob_up, 500), 9800)

Complement_of_cap(bullish_pct) == 9800 - bullish_pct

\* bearish_pct = 100 - bullish_pct
Complement(bullish_pct) == 10000 - bullish_pct

SentimentLabel_strict(bullish_pct) ==
    IF bullish_pct > 6000 THEN "Bullish"
    ELSE IF bullish_pct < 4000 THEN "Bearish"
    ELSE "Neutral"

\* Determine Label
SentimentLabel(bullish_pct) ==
    IF bullish_pct >= 6000 THEN "Bullish"
    ELSE IF bullish_pct <= 4000 THEN "Bearish"
    ELSE "Neutral"

\* the ML path, from the first prediction to the label
MLSentiment(raw_prob, news, status) ==
    LET boosted     == EarlyBoost(raw_prob, status)
        raw_prob_up == raw_prob
        baseline    == BaselineAfterRefit(boosted, raw_prob_up)
        overridden  == FlowOverride(baseline, status)
        cat         == CatalystOverride(overridden, news)
        final       == CapProb(cat.prob_up)
    IN  [path |-> "ml", raw_prob_up |-> raw_prob_up, flow_prob_up |-> overridden,
         prob_up |-> cat.prob_up, has_catalyst |-> cat.has_catalyst,
         sentiment_text |-> SentimentLabel(final),
         bullish_pct |-> final, bearish_pct |-> Complement(final)]

\* Fallback Logic (Heuristic v2.4), in the except branch
FallbackHeuristic(current_change) ==
    LET bullish_pct == IF current_change > 50 THEN 6000 + current_change * 2
                       ELSE IF current_change < -150 THEN 4000
                       ELSE 5000
    IN  [path |-> "fallback", raw_prob_up |-> 0, flow_prob_up |-> 0, prob_up |-> 0,
         has_catalyst |-> FALSE,
         sentiment_text |-> IF current_change > 50 THEN "Bullish"
                            ELSE IF current_change < -150 THEN "Bearish"
                            ELSE "Neutral",
         bullish_pct |-> bullish_pct, bearish_pct |-> Complement(bullish_pct)]

\* the values set before the try block, left alone when the history has more
\* than 30 rows and at most 20 of them survive dropna
UntouchedDefault ==
    [path |-> "default", raw_prob_up |-> 0, flow_prob_up |-> 0, prob_up |-> 0,
     has_catalyst |-> FALSE, sentiment_text |-> "Neutral",
     bullish_pct |-> 5000, bearish_pct |-> 5000]

\* section 2 of the handler: the try block and its except branch
SentimentSection(ml, current_change, status) ==
    IF ml.kind = "ok" THEN MLSentiment(ml.raw_prob, ml.news, status)
    ELSE IF ml.kind = "dropna_short" THEN UntouchedDefault
    ELSE FallbackHeuristic(current_change)

\* the sentiment part of the JSON answer
SentimentDetail(s) ==
    [sentiment |-> s.sentiment_text,
     bullish_percentage |-> Round1(s.bullish_pct),
     bearish_percentage |-> Round1(s.bearish_pct)]

\* Smart Money contribution
SmartMoneyFactor(status) ==
    IF status = "TRANSAKSI JUMBO" THEN "Transaksi Jumbo (+25%)"
    ELSE IF status \in {"SMART MONEY MASUK", "AKUMULASI SENYAP"} THEN "Akumulasi Senyap (+15%)"
    ELSE IF status = "DUKUNGAN INSTITUSI" THEN "Dukungan Aktif (+10%)"
    ELSE IF status \in {"SMART MONEY KELUAR", "DANA BESAR KELUAR"} THEN "Distribusi Terdeteksi (-15%)"
    ELSE "Netral (+-0%)"

WhaleFactor_returned_names(status) ==
    IF status \in {"MEGALODON / WHALE ENTRY", "MARKET MAKER AKTIF"} THEN "Entry Agresif (+15%)"
    ELSE IF status = "WHALE ACCUMULATION" THEN "Absorpsi Sideways (+8%)"
    ELSE IF status \in {"WHALE DISTRIBUTION", "SHORT SELLING PREDATOR"} THEN "Tekanan Jual (-12%)"
    ELSE "Netral (+-0%)"

\* Whale/Market Maker contribution
WhaleFactor(status) ==
    IF status \in {"MEGALODON ENTRY", "MARKET MAKER AKTIF"} THEN "Entry Agresif (+15%)"
    ELSE IF status = "ABSORPSI SIDEWAYS" THEN "Absorpsi Sideways (+8%)"
    ELSE IF status \in {"PENJUALAN DEFENSIF", "SHORT SELLING PREDATOR"} THEN "Tekanan Jual (-12%)"
    ELSE "Netral (+-0%)"

\* Retail sentiment contribution
RetailFactor(status) ==
    IF status = "RITEL FOMO" THEN "FOMO Detected (+5%)"
    ELSE IF status = "KAPITULASI (PANIC)" THEN "Kapitulasi Panik (++12% contrarian)"
    ELSE "Netral (+-0%)"

\* the list with the message appended when the condition of a warning holds
AppendIf(qw, cond, message) == IF cond THEN Append(qw, message) ELSE qw

\* the eight warnings of the try block, by message and in the order they are
\* appended; volume_ratio is the ratio of the 5-day history, and divergence
\* says whether the price rose more than 3 % with the volume trend under -0.3
QuantWarningsOfHistory(h, current_change, bf) ==
    LET volume_ratio == h.volume_ratio
        w1 == AppendIf(<<>>, current_change > 200 /\ volume_ratio < 70,
                       "Hati-hati Jebakan Bandar - harga naik tapi volume menurun")
        w2 == AppendIf(w1, /\ bf.groups.status \in {"SMART MONEY KELUAR", "DANA BESAR KELUAR"}
                           /\ current_change > 50 /\ current_change < 300,
                       "Bandar Trap Terdeteksi - distribusi terselubung")
        w3 == AppendIf(w2, /\ current_change > 500 /\ bf.retail.status = "RITEL FOMO"
                           /\ volume_ratio > 200,
                       "Bull Trap Risiko Tinggi")
        w4 == AppendIf(w3, /\ bf.groups.status \in {"AKUMULASI SENYAP", "DUKUNGAN INSTITUSI"}
                           /\ Abs(current_change) < 200,
                       "Accumulation Phase Aman - whale masih beli")
        w5 == AppendIf(w4, bf.whale.status \in {"PENJUALAN DEFENSIF", "SHORT SELLING PREDATOR"},
                       "Smart Money Exit Zone")
        w6 == AppendIf(w5, bf.retail.status = "KAPITULASI (PANIC)" /\ current_change < -500,
                       "Kapitulasi Ritel Terdeteksi - Peluang Contrarian")
        w7 == AppendIf(w6, h.len >= 5 /\ h.divergence,
                       "Divergensi Bearish: Price Up + Volume Down")
        w8 == AppendIf(w7, /\ (\/ bf.whale.status = "MEGALODON ENTRY"
                               \/ bf.phase = "TRANSAKSI JUMBO / BLOCK TRADE")
                           /\ volume_ratio > 300,
                       "Mega Whale Accumulation Detected")
    IN  w8

\* the try block of the warning system and its except branch
QuantWarningSystem(h, current_change, bf) ==
    IF h.kind = "error"
    THEN AppendIf(<<>>, bf.groups.status = "SMART MONEY KELUAR", "Smart Money Exit Terdeteksi")
    ELSE IF h.len >= 3 THEN QuantWarningsOfHistory(h, current_change, bf)
    ELSE <<>>

\* the general market condition given when no warning was appended
GeneralCondition(qw, sentiment_text, bullish_pct) ==
    IF qw # <<>> THEN qw
    ELSE IF sentiment_text = "Neutral" THEN <<"Market Dalam Fase Konsolidasi">>
    ELSE IF sentiment_text = "Bullish" /\ bullish_pct < 7000 THEN <<"Momentum Positif Moderate">>
    ELSE <<>>

\* the factors of the sentiment explanation that come from the brokerage flow
FlowFactors(bf) ==
    [smart_money |-> SmartMoneyFactor(bf.groups.status),
     whale |-> WhaleFactor(bf.whale.status),
     retail |-> RetailFactor(bf.retail.status)]

NoAnalysis ==
    [current_change |-> 0, vol_ratio |-> 0, vwap_dev |-> 0,
     path |-> "", raw_prob_up |-> 0, flow_prob_up |-> 0, prob_up |-> 0,
     has_catalyst |-> FALSE, sentiment_text |-> "", bullish_pct |-> 0, bearish_pct |-> 0,
     factors |-> [smart_money |-> "", whale |-> "", retail |-> ""],
     quant_warnings |-> <<>>]

NoResponse ==
    [status |-> "", daily_change |-> 0,
     sentiment_detail |-> [sentiment |-> "", bullish_percentage |-> 0, bearish_percentage |-> 0],
     factors |-> [smart_money |-> "", whale |-> "", retail |-> ""],
     quant_warnings |-> <<>>]

NoEnv ==
    [tv |-> [kind |-> "", value |-> 0],
     yf |-> [kind |-> "", vol_ratio |-> 0, vwap_dev |-> 0],
     ml |-> [kind |-> "", raw_prob |-> 0, news |-> ""],
     hist5 |-> [kind |-> "", len |-> 0, volume_ratio |-> 0, divergence |-> FALSE]]

\* percent changes the scanner reports
AnalysisChanges ==
    Above({50, 120, 350, 700, 1900}) \cup Below({-120, -150, -400}) \cup {0, 800, 2500}

\* volume ratios computed from the 20-day history
AnalysisVolumes ==
    Above({110, 140, 150, 180, 300}) \cup Below({85}) \cup {100}

\* values random.uniform(-2, 2) returns
RandomUniform == {c \in AnalysisChanges \cup {-200, 200} : -200 <= c /\ c <= 200}

\* probabilities of "up" (percent) the classifier predicts
RawProbs ==
    {0, 2499, 2500, 2501, 4499, 4500, 4501, 5000, 5999, 6000, 6001,
     7299, 7300, 7301, 7799, 7800, 7801, 10000}

TvOutcomes ==
    [kind : {"data"}, value : AnalysisChanges]
    \cup [kind : {"no_data"}, value : {0}]
    \cup [kind : {"error"}, value : RandomUniform]

YfOutcomes ==
    [kind : {"bars"}, vol_ratio : AnalysisVolumes, vwap_dev : {130}]
    \cup [kind : {"empty", "error"}, vol_ratio : {0}, vwap_dev : {0}]

\* the 5-day history of the warning system: the request raises, or it has
\* len rows with the last volume at volume_ratio of the mean
Hist5Outcomes ==
    [kind : {"error"}, len : {0}, volume_ratio : {0}, divergence : {FALSE}]
    \cup [kind : {"bars"}, len : {2, 3}, volume_ratio : {60, 100, 350}, divergence : {FALSE}]
    \cup [kind : {"bars"}, len : {5}, volume_ratio : {60, 100, 350}, divergence : BOOLEAN]

\* the two outcomes taken where the warnings are not looked at
Hist5Plain ==
    {h \in Hist5Outcomes : h.kind = "error" \/ (h.len = 5 /\ h.volume_ratio = 100 /\ ~h.divergence)}

\* the 6-month history request raises, has at most 30 rows, has at most 20
\* rows after dropna, makes a step of the ML path raise, or is fitted
MlOutcomes ==
    [kind : {"hist_error", "not_enough_data", "dropna_short", "ml_error"},
     raw_prob : {0}, news : {"none"}]
    \cup [kind : {"ok"}, raw_prob : RawProbs, news : {"catalyst", "no_catalyst", "error"}]

(***************************************************************************)
(* _get_news_sentiment_score                                               *)
(***************************************************************************)
\* A headline is kept by what the function reads of it: whether its title
\* text can be read (item.find('title').text.lower() raises when the item
\* has no title or an empty one), whether it holds a high-impact keyword,
\* and how many bullish and bearish keywords it holds.  The four high-impact
\* keywords are in bullish_keywords too, so a high-impact title counts at
\* least one bullish keyword.

\* the longest feed taken
MaxItems == 3

\* keyword counts of one title
KeywordCounts == {0, 1, 2}

Headlines ==
    {h \in [readable : {TRUE}, high : BOOLEAN, bull : KeywordCounts, bear : KeywordCounts] :
        h.high => h.bull >= 1}
    \cup [readable : {FALSE}, high : {FALSE}, bull : {0}, bear : {0}]

\* sequences of at most n elements of S
SeqUpTo(S, n) == UNION {[1..k -> S] : k \in 0..n}

\* the provider answers 200 with items, answers another status, or the
\* request or the XML parser raises
NewsFeeds ==
    [http : {"200"}, items : SeqUpTo(Headlines, MaxItems)]
    \cup [http : {"503", "raise"}, items : {<<>>}]

\* items = root.findall('.//item')[:10]
FirstTen(items) == SubSeq(items, 1, Min(10, Len(items)))

\* the for loop over the items from position i on, counters in acc; a title
\* that cannot be read raises and leaves the loop with what was set so far
RECURSIVE ScanTitles(_, _, _)
ScanTitles(items, i, acc) ==
    IF i > Len(items) THEN acc
    ELSE IF ~items[i].readable THEN [acc EXCEPT !.raised = TRUE]
    ELSE ScanTitles(items, i + 1,
                    [acc EXCEPT !.high_impact = acc.high_impact \/ items[i].high,
                                !.bullish_count = acc.bullish_count + items[i].bull,
                                !.bearish_count = acc.bearish_count + items[i].bear])

\* news_score = ((bullish_count - bearish_count) / total) * 100 if total > 0,
\* in hundredths rounded down
CountScore(bullish_count, bearish_count) ==
    LET total == bullish_count + bearish_count
    IN  IF total > 0 THEN ((bullish_count - bearish_count) * 10000) \div total ELSE 0

CatalystFloor_none(news_score, high_impact) == news_score

\* if high_impact: news_score = max(news_score, 85)
CatalystFloor(news_score, high_impact) ==
    IF high_impact THEN Max(news_score, 8500) ELSE news_score

\* the function: the tuple (news_score, high_impact) it returns; the bare
\* except swallows every exception and the return follows it
_get_news_sentiment_score(feed) ==
    IF feed.http # "200" THEN [news_score |-> 0, high_impact |-> FALSE]
    ELSE LET scan == ScanTitles(FirstTen(feed.items), 1,
                                [high_impact |-> FALSE, bullish_count |-> 0,
                                 bearish_count |-> 0, raised |-> FALSE])
         IN  IF scan.raised
             THEN [news_score |-> 0, high_impact |-> scan.high_impact]
             ELSE [news_score |-> CatalystFloor(CountScore(scan.bullish_count,
                                                            scan.bearish_count),
                                                scan.high_impact),
                   high_impact |-> scan.high_impact]

NoFeed == [http |-> "", items |-> <<>>]

NoNewsResult == [news_score |-> 0, high_impact |-> FALSE]

\* state of the variables of _get_news_sentiment_score outside its calls
NewsIdle ==
    /\ news_feed = NoFeed
    /\ news_result = NoNewsResult

(***************************************************************************)
(* forecast_advanced                                                       *)
(***************************************************************************)
\* The steps of the handler that can raise, in the order they run: reading
\* the request body, the history request, the feature computations,
\* prepare_data, train_or_load, predict_next_30_days, and building the
\* warning and the answer.  _get_news_sentiment_score swallows its
\* exceptions and is no such step.
ForecastSteps ==
    <<"json", "history", "features", "prepare", "train", "predict", "respond">>

\* position of a step in the handler
RECURSIVE StepIndex(_, _)
StepIndex(step, i) ==
    IF i > Len(ForecastSteps) THEN 0
    ELSE IF ForecastSteps[i] = step THEN i
    ELSE StepIndex(step, i + 1)

\* the step that raises, if any, is among the first n steps
RaisesWithin(env, n) ==
    /\ env.raises # "none"
    /\ StepIndex(env.raises, 1) <= n

\* if len(hist) < 120
HistoryTooShort(hist_len) == hist_len < 120

\* prepare_data: one sequence per row after the first seq_length = 60 rows
PreparedSequences(hist_len) == Max(hist_len - 60, 0)

TooFewSequences_60(n) == n < 60

\* if len(X) < 80
TooFewSequences(n) == n < 80

\* return_fallback(message)
return_fallback(message) ==
    [http |-> 200, status |-> "partial",
     quant_signal_advanced |->
         [level |-> "NEUTRAL", message |-> message, color |-> "secondary",
          icon |-> "[WARN]", secondary |-> <<"Data historis terbatas">>]]

\* the except branch of the handler
ErrorHandled(step) ==
    [http |-> 200, status |-> "error_handled",
     quant_signal_advanced |->
         [level |-> "NEUTRAL", message |-> "Analisis gagal: " \o step,
          color |-> "secondary", icon |-> "[WARN]",
          secondary |-> <<"Server error or Data issue">>]]

\* the arguments of the generate_quant_warning call: foreign_net_buy and
\* sentiment_score are passed as 0.0, and broker_activity is None because the
\* frame the handler builds has no broker_codes column
ForecastWarnArgs(env) ==
    [expected_return |-> env.expected_return, volume_ratio |-> env.vol_ratio,
     rsi |-> env.rsi, foreign_net_buy |-> 0, sentiment_score |-> 0,
     atr_ratio |-> env.atr_ratio, broker_activity |-> NoBrokerActivity]

\* the handler: the answer it gives
forecast_advanced(env) ==
    IF RaisesWithin(env, 2) THEN ErrorHandled(env.raises)
    ELSE IF HistoryTooShort(env.hist_len)
    THEN return_fallback("Data historis kurang dari 120 hari")
    ELSE IF RaisesWithin(env, 4) THEN ErrorHandled(env.raises)
    ELSE IF TooFewSequences(PreparedSequences(env.hist_len))
    THEN return_fallback("Data clean tidak cukup untuk AI Model (Min 80 bar)")
    ELSE IF RaisesWithin(env, 7) THEN ErrorHandled(env.raises)
    ELSE [http |-> 200, status |-> "success",
          quant_signal_advanced |-> generate_quant_warning(ForecastWarnArgs(env))]

\* rows of the one-year history
HistoryLengths == Around({120, 140}) \cup {0, 250}

\* 30-day expected returns the forecaster gives
ForecastReturns == {-4500, -2500, -1500, 0, 900, 1600, 2500, 4500}

ForecastVolumes == {50, 100, 250, 350}

ForecastRsis == {2000, 5000, 8000}

ForecastAtrs == {100, 200}

ForecastEnvs ==
    [raises : {"none"} \cup {ForecastSteps[i] : i \in DOMAIN ForecastSteps},
     hist_len : HistoryLengths, expected_return : ForecastReturns,
     vol_ratio : ForecastVolumes, rsi : ForecastRsis, atr_ratio : ForecastAtrs]

NoForecastEnv ==
    [raises |-> "", hist_len |-> 0, expected_return |-> 0, vol_ratio |-> 0,
     rsi |-> 0, atr_ratio |-> 0]

NoForecastResponse ==
    [http |-> 0, status |-> "",
     quant_signal_advanced |-> [level |-> "", message |-> "", color |-> "",
                                icon |-> "", secondary |-> <<>>]]

\* state of the variables of forecast_advanced outside its calls
ForecastIdle ==
    /\ forecast_env = NoForecastEnv
    /\ forecast_response = NoForecastResponse

(***************************************************************************)
(* get_sector_stocks and the sector cache                                  *)
(***************************************************************************)
\* concurrent /api/sectors requests
NumRequests == 2

\* refresh threads alive at a time
MaxThreads == 2

SectorRequests == 1..NumRequests

\* no refresh thread is alive
NoThreads == [start |-> 0, fetching |-> 0, ending |-> 0]

\* a request that is not running
IdleProc ==
    [pc |-> "idle", path |-> "", result |-> "", spawned |-> FALSE, sync_result |-> ""]

\* state of the sector cache when the module is loaded, no request running
SectorIdle ==
    /\ _sector_cache = "none"
    /\ sector_fresh = FALSE
    /\ _sector_fetch_in_progress = FALSE
    /\ _sector_fetch_lock = 0
    /\ sector_proc = [p \in SectorRequests |-> IdleProc]
    /\ sector_threads = NoThreads

(***************************************************************************)
(* the socket service of the broker summary                                *)
(***************************************************************************)
\* clients that may connect
NumClients == 2

Clients == 1..NumClients

Symbols == {"BBCA", "TLKM"}

\* range(12) of broadcast_loop
BroadcastRounds == 12

\* active_subscriptions has no key for the symbol
NoKey == [present |-> FALSE, sids |-> {}]

\* no background task for the symbol
NoLoop == [running |-> FALSE, round |-> 0]

\* the step called broadcast_broker_summary for no symbol
NoEmit == [event |-> "", symbol |-> "", to |-> {}]

\* the socket service when the module is loaded
SocketIdle ==
    /\ connected = {}
    /\ active_subscriptions = [s \in Symbols |-> NoKey]
    /\ broadcast_timers = {}
    /\ broadcast_loop = [s \in Symbols |-> NoLoop]
    /\ emptied = {}
    /\ emitted = NoEmit

(***************************************************************************)
(* _get_news_with_cache                                                    *)
(***************************************************************************)
\* periods of 3 hours the clock of the news cache runs through
NewsTicks == 4

\* lists _scrape_news can return
NumLists == 2

NEWS_CACHE_DURATION == 21600

StockCodes == {"BBCA", "TLKM"}

\* the list of _get_fallback_news
FallbackNews == 0

\* the dict has no key for the stock code
NoEntry == [present |-> FALSE, value |-> 0]

\* _get_news_with_cache has not been called
NoNewsCall ==
    [code |-> "", at |-> 0, cache_before |-> NoEntry, fetch_before |-> NoEntry,
     scraped |-> FALSE, new_news |-> NoEntry, returned |-> NoEntry]

\* the news cache when the module is loaded
NewsCacheIdle ==
    /\ _news_cache = [c \in StockCodes |-> NoEntry]
    /\ _news_last_fetch = [c \in StockCodes |-> NoEntry]
    /\ news_now = 0
    /\ news_call = NoNewsCall

(***************************************************************************)
(* get_market_dynamics                                                     *)
(***************************************************************************)
\* periods of 12 hours the clock of the dynamics cache runs through
DynamicsTicks == 5

DYNAMICS_CACHE_DURATION == 86400

\* requests get_market_dynamics sends to the scanner: gainers, losers,
\* index stocks, hype stocks
ProviderCalls == 4

\* _dynamics_cache = None
NoDynamics == [present |-> FALSE, status |-> "", last_update |-> 0]

\* get_market_dynamics has not been called
NoDynamicsCall ==
    [at |-> 0, cache_before |-> NoDynamics, fetch_before |-> NoEntry,
     provider_calls |-> 0, failed |-> FALSE, returned |-> NoDynamics]

\* the dynamics cache when the module is loaded
DynamicsIdle ==
    /\ _dynamics_cache = NoDynamics
    /\ _dynamics_last_fetch = NoEntry
    /\ dynamics_now = 0
    /\ dynamics_call = NoDynamicsCall

\* state of the caches and sockets of the services when nothing has run
ServicesIdle ==
    /\ SectorIdle
    /\ SocketIdle
    /\ NewsCacheIdle
    /\ DynamicsIdle

\* no call of generate_quant_warning came before
NoPrevWarn ==
    [called |-> FALSE, args |-> NoWarnArgs, details |-> <<>>, result |-> NoWarning]

\* no call of detect_brokerage_flow came before
NoPrevFlow == [called |-> FALSE, args |-> NoFlowArgs, result |-> NoFlow]

\* state of the variables of generate_quant_warning outside its calls
WarnIdle ==
    /\ warn_args = NoWarnArgs
    /\ details = <<>>
    /\ main_warning = NoWarning
    /\ warn_prev = NoPrevWarn

\* state of the variables of detect_brokerage_flow outside its calls
FlowIdle ==
    /\ flow_args = NoFlowArgs
    /\ broker_flow = NoFlow
    /\ flow_prev = NoPrevFlow

AnalysisIdle ==
    /\ analysis_env = NoEnv
    /\ analysis = NoAnalysis
    /\ response = NoResponse

InitFlow ==
    /\ pc = "flow_call"
    /\ flow_args \in [current_change : FlowChanges, volume_ratio : FlowVolumes,
                      vwap_deviation : FlowVwaps]
    /\ broker_flow = NoFlow
    /\ flow_prev = NoPrevFlow
    /\ WarnIdle
    /\ AnalysisIdle
    /\ NewsIdle
    /\ ForecastIdle
    /\ ServicesIdle

CallDetectBrokerageFlow ==
    /\ pc = "flow_call"
    /\ broker_flow' = detect_brokerage_flow(flow_args.current_change,
                                            flow_args.volume_ratio,
                                            flow_args.vwap_deviation)
    /\ pc' = "flow_done"
    /\ UNCHANGED <<flow_args, flow_prev, warn_vars, analysis_vars, news_vars, forecast_vars, service_vars>>

NextFlow == CallDetectBrokerageFlow

SpecFlow == InitFlow /\ [][NextFlow]_vars

\* arguments of two calls in a row
PairChanges == {-401, -151, 0, 121, 351, 701}

PairVolumes == {50, 100, 151, 181, 301}

PairArgs ==
    [current_change : PairChanges, volume_ratio : PairVolumes, vwap_deviation : FlowVwaps]

InitFlowCalls ==
    /\ pc = "flow_call"
    /\ flow_args \in PairArgs
    /\ broker_flow = NoFlow
    /\ flow_prev = NoPrevFlow
    /\ WarnIdle
    /\ AnalysisIdle
    /\ NewsIdle
    /\ ForecastIdle
    /\ ServicesIdle

\* the caller keeps the first result and calls again, with any arguments
CallDetectBrokerageFlowAgain ==
    /\ pc = "flow_done"
    /\ ~flow_prev.called
    /\ flow_prev' = [called |-> TRUE, args |-> flow_args, result |-> broker_flow]
    /\ flow_args' \in PairArgs
    /\ broker_flow' = NoFlow
    /\ pc' = "flow_call"
    /\ UNCHANGED <<warn_vars, analysis_vars, news_vars, forecast_vars, service_vars>>

NextFlowCalls == CallDetectBrokerageFlow \/ CallDetectBrokerageFlowAgain

SpecFlowCalls == InitFlowCalls /\ [][NextFlowCalls]_vars

InitWarn ==
    /\ pc = "warn_call"
    /\ warn_args \in [expected_return : WarnReturns, volume_ratio : WarnVolumes,
                      rsi : WarnRsis, foreign_net_buy : WarnForeigns,
                      sentiment_score : WarnSentiments, atr_ratio : WarnAtrs,
                      broker_activity : WarnBrokerActivities]
    /\ details = <<>>
    /\ main_warning = NoWarning
    /\ warn_prev = NoPrevWarn
    /\ FlowIdle
    /\ AnalysisIdle
    /\ NewsIdle
    /\ ForecastIdle
    /\ ServicesIdle

\* generate_quant_warning(**warn_args)
CallGenerateQuantWarning ==
    /\ pc = "warn_call"
    /\ details' = SortedDetails(warn_args)
    /\ main_warning' = generate_quant_warning(warn_args)
    /\ pc' = "warn_done"
    /\ UNCHANGED <<warn_args, warn_prev, flow_vars, analysis_vars, news_vars, forecast_vars, service_vars>>

NextWarn == CallGenerateQuantWarning

SpecWarn == InitWarn /\ [][NextWarn]_vars

\* arguments of two calls in a row: scalars that fire the rules of every
\* group, and broker_activity values that list codes for different kinds
PairReturns == {-4500, -1500, 0, 900, 2500, 4500}

PairWarnVolumes == {50, 100, 250, 350}

PairRsis == {2000, 5000, 8000}

PairForeigns == {-20000, 0, 20000}

PairSentiments == {-80, 0, 80}

PairAtrs == {100, 200}

PairBrokerActivities ==
    WarnBrokerActivities
    \cup {[foreign |-> <<"AK", "BK">>, rsi |-> <<"ZP">>, sentiment |-> <<"CC">>,
           volatility |-> <<"DX">>]}

InitWarnCalls ==
    /\ pc = "warn_call"
    /\ warn_args \in [expected_return : PairReturns, volume_ratio : PairWarnVolumes,
                      rsi : PairRsis, foreign_net_buy : PairForeigns,
                      sentiment_score : PairSentiments, atr_ratio : PairAtrs,
                      broker_activity : PairBrokerActivities]
    /\ details = <<>>
    /\ main_warning = NoWarning
    /\ warn_prev = NoPrevWarn
    /\ FlowIdle
    /\ AnalysisIdle
    /\ NewsIdle
    /\ ForecastIdle
    /\ ServicesIdle

\* the caller keeps the first result and calls again with the same scalars
\* and any broker_activity
CallGenerateQuantWarningAgain ==
    /\ pc = "warn_done"
    /\ ~warn_prev.called
    /\ warn_prev' = [called |-> TRUE, args |-> warn_args, details |-> details,
                     result |-> main_warning]
    /\ \E ba \in PairBrokerActivities :
           warn_args' = [warn_args EXCEPT !.broker_activity = ba]
    /\ details' = <<>>
    /\ main_warning' = NoWarning
    /\ pc' = "warn_call"
    /\ UNCHANGED <<flow_vars, analysis_vars, news_vars, forecast_vars, service_vars>>

NextWarnCalls == CallGenerateQuantWarning \/ CallGenerateQuantWarningAgain

SpecWarnCalls == InitWarnCalls /\ [][NextWarnCalls]_vars

InitAnalysis ==
    /\ pc = "analysis_call"
    /\ analysis_env \in [tv : TvOutcomes, yf : YfOutcomes, ml : MlOutcomes,
                         hist5 : Hist5Plain]
    /\ analysis = NoAnalysis
    /\ response = NoResponse
    /\ flow_args = NoFlowArgs
    /\ broker_flow = NoFlow
    /\ flow_prev = NoPrevFlow
    /\ WarnIdle
    /\ NewsIdle
    /\ ForecastIdle
    /\ ServicesIdle

\* POST /api/analysis
CallGetFullAnalysis ==
    /\ pc = "analysis_call"
    /\ LET current_change == FetchCurrentChange(analysis_env.tv)
           v  == FetchVolume(analysis_env.yf)
           bf == detect_brokerage_flow(current_change, v.vol_ratio, v.vwap_dev)
           s  == SentimentSection(analysis_env.ml, current_change, bf.groups.status)
           qw == GeneralCondition(QuantWarningSystem(analysis_env.hist5, current_change, bf),
                                  s.sentiment_text, s.bullish_pct)
       IN  /\ flow_args' = [current_change |-> current_change,
                            volume_ratio |-> v.vol_ratio, vwap_deviation |-> v.vwap_dev]
           /\ broker_flow' = bf
           /\ analysis' = [current_change |-> current_change,
                           vol_ratio |-> v.vol_ratio, vwap_dev |-> v.vwap_dev,
                           path |-> s.path, raw_prob_up |-> s.raw_prob_up,
                           flow_prob_up |-> s.flow_prob_up, prob_up |-> s.prob_up,
                           has_catalyst |-> s.has_catalyst,
                           sentiment_text |-> s.sentiment_text,
                           bullish_pct |-> s.bullish_pct, bearish_pct |-> s.bearish_pct,
                           factors |-> FlowFactors(bf), quant_warnings |-> qw]
           /\ response' = [status |-> "success", daily_change |-> current_change,
                           sentiment_detail |-> SentimentDetail(s),
                           factors |-> FlowFactors(bf), quant_warnings |-> qw]
    /\ pc' = "analysis_done"
    /\ UNCHANGED <<analysis_env, flow_prev, warn_vars, news_vars, forecast_vars, service_vars>>

NextAnalysis == CallGetFullAnalysis

SpecAnalysis == InitAnalysis /\ [][NextAnalysis]_vars

\* requests that reach every whale and retail status, with every outcome of
\* the 5-day history
FactorChanges == {-600, -450, -350, -100, 0, 100, 250, 400, 450, 600}

FactorVolumes == {50, 85, 100, 170, 250, 350}

FactorProbs == {0, 5000, 10000}

InitAnalysisFactors ==
    /\ pc = "analysis_call"
    /\ analysis_env \in
           [tv : [kind : {"data"}, value : FactorChanges]
                    \cup [kind : {"no_data"}, value : {0}]
                    \cup [kind : {"error"}, value : {-200, 0, 200}],
            yf : [kind : {"bars"}, vol_ratio : FactorVolumes, vwap_dev : {130}]
                    \cup [kind : {"empty", "error"}, vol_ratio : {0}, vwap_dev : {0}],
            ml : {m \in MlOutcomes : m.raw_prob \in FactorProbs},
            hist5 : Hist5Outcomes]
    /\ analysis = NoAnalysis
    /\ response = NoResponse
    /\ FlowIdle
    /\ WarnIdle
    /\ NewsIdle
    /\ ForecastIdle
    /\ ServicesIdle

SpecAnalysisFactors == InitAnalysisFactors /\ [][NextAnalysis]_vars

InitNews ==
    /\ pc = "news_call"
    /\ news_feed \in NewsFeeds
    /\ news_result = NoNewsResult
    /\ FlowIdle
    /\ WarnIdle
    /\ AnalysisIdle
    /\ ForecastIdle
    /\ ServicesIdle

Call_get_news_sentiment_score ==
    /\ pc = "news_call"
    /\ news_result' = _get_news_sentiment_score(news_feed)
    /\ pc' = "news_done"
    /\ UNCHANGED <<news_feed, flow_vars, warn_vars, analysis_vars, forecast_vars, service_vars>>

NextNews == Call_get_news_sentiment_score

SpecNews == InitNews /\ [][NextNews]_vars

InitForecast ==
    /\ pc = "forecast_call"
    /\ forecast_env \in ForecastEnvs
    /\ forecast_response = NoForecastResponse
    /\ FlowIdle
    /\ WarnIdle
    /\ AnalysisIdle
    /\ NewsIdle
    /\ ServicesIdle

\* POST /api/forecast_advanced
CallForecastAdvanced ==
    /\ pc = "forecast_call"
    /\ forecast_response' = forecast_advanced(forecast_env)
    /\ pc' = "forecast_done"
    /\ UNCHANGED <<forecast_env, flow_vars, warn_vars, analysis_vars, news_vars, service_vars>>

NextForecast == CallForecastAdvanced

SpecForecast == InitForecast /\ [][NextForecast]_vars

\* no handler of the analysis core is running
CoreIdle ==
    /\ FlowIdle
    /\ WarnIdle
    /\ AnalysisIdle
    /\ NewsIdle
    /\ ForecastIdle

InitSectors ==
    /\ pc = "sectors"
    /\ CoreIdle
    /\ ServicesIdle

\* the request has answered: only its answer, and what its scan returned,
\* are kept
Answered(result, sync_result) ==
    [IdleProc EXCEPT !.pc = "done", !.result = result, !.sync_result = sync_result]

\* the refresh threads alive
AliveThreads == sector_threads.start + sector_threads.fetching + sector_threads.ending

\* the executions of _fetch_and_update_sectors_sync under way
Scans ==
    Cardinality({r \in SectorRequests : sector_proc[r].pc = "fetching"})
        + sector_threads.fetching

\* a GET /api/sectors request arrives
SectorRequestArrives(r) ==
    /\ sector_proc[r].pc \in {"idle", "done"}
    /\ sector_proc' = [sector_proc EXCEPT ![r] = [IdleProc EXCEPT !.pc = "check_fresh"]]
    /\ UNCHANGED <<_sector_cache, sector_fresh, _sector_fetch_in_progress,
                   _sector_fetch_lock, sector_threads, sector_frame>>

\* the cache gets older than SECTORS_CACHE_TTL
SectorTtlExpires ==
    /\ _sector_cache # "none"
    /\ sector_fresh
    /\ sector_fresh' = FALSE
    /\ UNCHANGED <<_sector_cache, _sector_fetch_in_progress, _sector_fetch_lock,
                   sector_proc, sector_threads, sector_frame>>

\* the first test: a fresh cache is returned, or scanned again in the
\* caller when it has no sector
SectorCheckFresh(r) ==
    /\ sector_proc[r].pc = "check_fresh"
    /\ sector_proc' = [sector_proc EXCEPT ![r] =
           IF _sector_cache # "none" /\ sector_fresh
           THEN IF _sector_cache = "empty"
                THEN [@ EXCEPT !.pc = "fetching", !.path = "fresh_empty"]
                ELSE Answered("cached", "")
           ELSE [@ EXCEPT !.pc = "check_stale"]]
    /\ UNCHANGED <<_sector_cache, sector_fresh, _sector_fetch_in_progress,
                   _sector_fetch_lock, sector_threads, sector_frame>>

SectorStaleRefresh_always(r) ==
    /\ sector_proc[r].pc = "check_stale"
    /\ IF _sector_cache = "none"
       THEN /\ sector_proc' = [sector_proc EXCEPT ![r] =
                   [@ EXCEPT !.pc = "nocache_flag", !.path = "nocache"]]
            /\ UNCHANGED sector_threads
       ELSE /\ AliveThreads < MaxThreads
            /\ sector_proc' = [sector_proc EXCEPT ![r] =
                   [@ EXCEPT !.pc = "stale_return", !.path = "stale", !.spawned = TRUE]]
            /\ sector_threads' = [sector_threads EXCEPT !.start = @ + 1]
    /\ UNCHANGED <<_sector_cache, sector_fresh, _sector_fetch_in_progress,
                   _sector_fetch_lock, sector_frame>>

\* the second test: with a cache, which is stale then, a refresh thread is
\* started unless the flag is set
SectorStaleRefresh(r) ==
    /\ sector_proc[r].pc = "check_stale"
    /\ IF _sector_cache = "none"
       THEN /\ sector_proc' = [sector_proc EXCEPT ![r] =
                   [@ EXCEPT !.pc = "nocache_flag", !.path = "nocache"]]
            /\ UNCHANGED sector_threads
       ELSE IF _sector_fetch_in_progress
       THEN /\ sector_proc' = [sector_proc EXCEPT ![r] =
                   [@ EXCEPT !.pc = "stale_return", !.path = "stale"]]
            /\ UNCHANGED sector_threads
       ELSE /\ AliveThreads < MaxThreads
            /\ sector_proc' = [sector_proc EXCEPT ![r] =
                   [@ EXCEPT !.pc = "stale_return", !.path = "stale",
                             !.spawned = TRUE]]
            /\ sector_threads' = [sector_threads EXCEPT !.start = @ + 1]
    /\ UNCHANGED <<_sector_cache, sector_fresh, _sector_fetch_in_progress,
                   _sector_fetch_lock, sector_frame>>

\* stale cache: the cached entry is returned, the fallback when it has no sector
SectorStaleReturn(r) ==
    /\ sector_proc[r].pc = "stale_return"
    /\ sector_proc' = [sector_proc EXCEPT ![r] =
           Answered(IF _sector_cache = "empty" THEN "fallback" ELSE "cached", "")]
    /\ UNCHANGED <<_sector_cache, sector_fresh, _sector_fetch_in_progress,
                   _sector_fetch_lock, sector_threads, sector_frame>>

\* no cache: the fallback is returned when the flag is set
SectorNoCacheFlag(r) ==
    /\ sector_proc[r].pc = "nocache_flag"
    /\ sector_proc' = [sector_proc EXCEPT ![r] =
           IF _sector_fetch_in_progress
           THEN Answered("fallback", "")
           ELSE [@ EXCEPT !.pc = "acquire"]]
    /\ UNCHANGED <<_sector_cache, sector_fresh, _sector_fetch_in_progress,
                   _sector_fetch_lock, sector_threads, sector_frame>>

\* with _sector_fetch_lock, once the lock is free: a cache that became
\* fresh is returned, else the flag is set and the scan runs in the caller
SectorDoubleCheck(r) ==
    /\ sector_proc[r].pc = "acquire"
    /\ _sector_fetch_lock = 0
    /\ IF _sector_cache # "none" /\ sector_fresh
       THEN /\ sector_proc' = [sector_proc EXCEPT ![r] = Answered("cached", "")]
            /\ UNCHANGED <<_sector_fetch_in_progress, _sector_fetch_lock>>
       ELSE /\ sector_proc' = [sector_proc EXCEPT ![r] = [@ EXCEPT !.pc = "fetching"]]
            /\ _sector_fetch_in_progress' = TRUE
            /\ _sector_fetch_lock' = r
    /\ UNCHANGED <<_sector_cache, sector_fresh, sector_threads, sector_frame>>

\* the scan that ends was run by a refresh thread (0), or by the request p,
\* which returns the entry, or the fallback after a failure, and leaves the
\* with block if it was in it
ScanReturns(p, value) ==
    IF p = 0
    THEN /\ sector_threads.fetching > 0
         /\ sector_threads' = [sector_threads EXCEPT !.fetching = @ - 1,
                                                     !.ending = @ + 1]
         /\ UNCHANGED <<sector_proc, _sector_fetch_lock>>
    ELSE /\ sector_proc[p].pc = "fetching"
         /\ sector_proc' = [sector_proc EXCEPT ![p] =
                Answered(IF value = "entry" THEN "fetched" ELSE "fallback", value)]
         /\ _sector_fetch_lock' = IF _sector_fetch_lock = p THEN 0 ELSE _sector_fetch_lock
         /\ UNCHANGED sector_threads

\* _fetch_and_update_sectors_sync ends well: the cache and its time are
\* set, the entry is returned and the finally clause resets the flag
SectorFetchSucceeds(p) ==
    /\ ScanReturns(p, "entry")
    /\ _sector_cache' \in {"data", "empty"}
    /\ sector_fresh' = TRUE
    /\ _sector_fetch_in_progress' = FALSE
    /\ UNCHANGED sector_frame

SectorFetchFails_keeps_flag(p) ==
    /\ ScanReturns(p, "None")
    /\ UNCHANGED <<_sector_cache, sector_fresh, _sector_fetch_in_progress, sector_frame>>

\* _fetch_and_update_sectors_sync raises inside (request error, bad JSON,
\* empty data): None is returned and the finally clause resets the flag
SectorFetchFails(p) ==
    /\ ScanReturns(p, "None")
    /\ _sector_fetch_in_progress' = FALSE
    /\ UNCHANGED <<_sector_cache, sector_fresh, sector_frame>>

\* _fetch_and_update_sectors_background starts: the flag is set, the scan runs
SectorBackgroundStarts ==
    /\ sector_threads.start > 0
    /\ sector_threads' = [sector_threads EXCEPT !.start = @ - 1, !.fetching = @ + 1]
    /\ _sector_fetch_in_progress' = TRUE
    /\ UNCHANGED <<_sector_cache, sector_fresh, _sector_fetch_lock, sector_proc,
                   sector_frame>>

\* the finally clause of _fetch_and_update_sectors_background; the thread ends
SectorBackgroundEnds ==
    /\ sector_threads.ending > 0
    /\ sector_threads' = [sector_threads EXCEPT !.ending = @ - 1]
    /\ _sector_fetch_in_progress' = FALSE
    /\ UNCHANGED <<_sector_cache, sector_fresh, _sector_fetch_lock, sector_proc,
                   sector_frame>>

NextSectors ==
    \/ SectorTtlExpires
    \/ SectorBackgroundStarts
    \/ SectorBackgroundEnds
    \/ \E r \in SectorRequests :
          \/ SectorRequestArrives(r)
          \/ SectorCheckFresh(r)
          \/ SectorStaleRefresh(r)
          \/ SectorStaleReturn(r)
          \/ SectorNoCacheFlag(r)
          \/ SectorDoubleCheck(r)
    \/ \E p \in SectorRequests \cup {0} :
          \/ SectorFetchSucceeds(p)
          \/ SectorFetchFails(p)

SpecSectors == InitSectors /\ [][NextSectors]_vars

InitSocket ==
    /\ pc = "socket"
    /\ CoreIdle
    /\ ServicesIdle

\* symbol in active_subscriptions and active_subscriptions[symbol]
HasSubscribers(s) ==
    active_subscriptions[s].present /\ active_subscriptions[s].sids # {}

\* the clients subscribed to the symbol
Subscribers(s) ==
    IF active_subscriptions[s].present THEN active_subscriptions[s].sids ELSE {}

\* socketio.emit without a recipient: every client of the namespace gets it
Recipients(s) == connected

\* broadcast_broker_summary: the data, or the error when get_data raises
broadcast_broker_summary(s) ==
    \E event \in {"broker_summary_data", "broker_summary_error"} :
        emitted' = [event |-> event, symbol |-> s, to |-> Recipients(s)]

handle_connect(c) ==
    /\ c \notin connected
    /\ connected' = connected \cup {c}
    /\ emitted' = NoEmit
    /\ UNCHANGED <<active_subscriptions, broadcast_timers, broadcast_loop, emptied,
                   socket_frame>>

\* whether handle_subscribe starts a background task for the symbol
StartsLoop(s) == s \notin broadcast_timers

\* subscribe: the client joins the set of the symbol, the background task
\* is started when broadcast_timers has no key for it, the data are sent
handle_subscribe(c, s) ==
    /\ c \in connected
    /\ IF s = ""
       THEN /\ emitted' = [event |-> "error", symbol |-> "", to |-> {c}]
            /\ UNCHANGED <<active_subscriptions, broadcast_timers, broadcast_loop>>
       ELSE /\ active_subscriptions' = [active_subscriptions EXCEPT ![s] =
                   [present |-> TRUE, sids |-> Subscribers(s) \cup {c}]]
            /\ IF StartsLoop(s)
               THEN /\ broadcast_timers' = broadcast_timers \cup {s}
                    /\ broadcast_loop' = [broadcast_loop EXCEPT ![s] =
                           [running |-> TRUE, round |-> 0]]
               ELSE UNCHANGED <<broadcast_timers, broadcast_loop>>
            /\ broadcast_broker_summary(s)
    /\ UNCHANGED <<connected, emptied, socket_frame>>

\* unsubscribe: the client leaves the set; a set found empty is to be deleted
handle_unsubscribe(c, s) ==
    /\ c \in connected
    /\ IF active_subscriptions[s].present
       THEN /\ active_subscriptions' = [active_subscriptions EXCEPT ![s] =
                   [@ EXCEPT !.sids = @ \ {c}]]
            /\ emptied' = IF active_subscriptions[s].sids \ {c} = {}
                          THEN emptied \cup {s} ELSE emptied
       ELSE UNCHANGED <<active_subscriptions, emptied>>
    /\ emitted' = NoEmit
    /\ UNCHANGED <<connected, broadcast_timers, broadcast_loop, socket_frame>>

\* disconnect: the client leaves every set it is in
handle_disconnect(c) ==
    /\ c \in connected
    /\ connected' = connected \ {c}
    /\ active_subscriptions' = [s \in Symbols |->
           IF active_subscriptions[s].present /\ c \in active_subscriptions[s].sids
           THEN [active_subscriptions[s] EXCEPT !.sids = @ \ {c}]
           ELSE active_subscriptions[s]]
    /\ emptied' = emptied \cup {s \in Symbols : active_subscriptions[s].present
                                    /\ active_subscriptions[s].sids = {c}}
    /\ emitted' = NoEmit
    /\ UNCHANGED <<broadcast_timers, broadcast_loop, socket_frame>>

\* del active_subscriptions[symbol], by the handler that found the set empty
DeleteEmptied(s) ==
    /\ s \in emptied
    /\ emptied' = emptied \ {s}
    /\ active_subscriptions' = [active_subscriptions EXCEPT ![s] = NoKey]
    /\ emitted' = NoEmit
    /\ UNCHANGED <<connected, broadcast_timers, broadcast_loop, socket_frame>>

\* one round of broadcast_loop: the symbol has subscribers, the data are
\* sent and the task sleeps
BroadcastRound(s) ==
    /\ broadcast_loop[s].running
    /\ broadcast_loop[s].round < BroadcastRounds
    /\ HasSubscribers(s)
    /\ broadcast_loop' = [broadcast_loop EXCEPT ![s] = [@ EXCEPT !.round = @ + 1]]
    /\ broadcast_broker_summary(s)
    /\ UNCHANGED <<connected, active_subscriptions, broadcast_timers, emptied,
                   socket_frame>>

\* broadcast_loop ends, after its last round or with no subscriber: the two
\* keys are deleted when the set of the symbol is there and empty
BroadcastLoopEnds(s) ==
    /\ broadcast_loop[s].running
    /\ broadcast_loop[s].round = BroadcastRounds \/ ~HasSubscribers(s)
    /\ broadcast_loop' = [broadcast_loop EXCEPT ![s] = NoLoop]
    /\ IF active_subscriptions[s].present /\ active_subscriptions[s].sids = {}
       THEN /\ active_subscriptions' = [active_subscriptions EXCEPT ![s] = NoKey]
            /\ broadcast_timers' = broadcast_timers \ {s}
       ELSE UNCHANGED <<active_subscriptions, broadcast_timers>>
    /\ emitted' = NoEmit
    /\ UNCHANGED <<connected, emptied, socket_frame>>

NextSocket ==
    \/ \E c \in Clients :
          \/ handle_connect(c)
          \/ handle_disconnect(c)
          \/ \E s \in Symbols \cup {""} : handle_subscribe(c, s)
          \/ \E s \in Symbols : handle_unsubscribe(c, s)
    \/ \E s \in Symbols :
          \/ DeleteEmptied(s)
          \/ BroadcastRound(s)
          \/ BroadcastLoopEnds(s)

SpecSocket == InitSocket /\ [][NextSocket]_vars

InitNewsCache ==
    /\ pc = "news_cache"
    /\ CoreIdle
    /\ ServicesIdle

\* time passes between two calls
NewsTimePasses ==
    /\ news_now < NewsTicks
    /\ news_now' = news_now + 1
    /\ UNCHANGED <<_news_cache, _news_last_fetch, news_call, newscache_frame>>

\* is_cache_valid: both keys are there and the time is less than
\* NEWS_CACHE_DURATION seconds old
is_cache_valid(stock_code) ==
    /\ _news_cache[stock_code].present
    /\ _news_last_fetch[stock_code].present
    /\ (news_now - _news_last_fetch[stock_code].value) * 10800 < NEWS_CACHE_DURATION

\* what _scrape_news can return: None, or a list that is not empty
ScrapeResults == {NoEntry} \cup {[present |-> TRUE, value |-> n] : n \in 1..NumLists}

StoreNews_with_fallback(stock_code, new_news) ==
    /\ _news_cache' = [_news_cache EXCEPT ![stock_code] =
           IF new_news.present THEN new_news
           ELSE IF @.present THEN @
           ELSE [present |-> TRUE, value |-> FallbackNews]]
    /\ _news_last_fetch' = [_news_last_fetch EXCEPT ![stock_code] =
           IF new_news.present THEN [present |-> TRUE, value |-> news_now] ELSE @]

\* if new_news: the list and the time of the call are stored
StoreNews(stock_code, new_news) ==
    IF new_news.present
    THEN /\ _news_cache' = [_news_cache EXCEPT ![stock_code] = new_news]
         /\ _news_last_fetch' = [_news_last_fetch EXCEPT ![stock_code] =
                [present |-> TRUE, value |-> news_now]]
    ELSE UNCHANGED <<_news_cache, _news_last_fetch>>

\* what the call returns after the scrape: the new list, else the old
\* list of the cache, else the fallback news
NewsAfterScrape(stock_code, new_news) ==
    IF new_news.present THEN new_news
    ELSE IF _news_cache[stock_code].present THEN _news_cache[stock_code]
    ELSE [present |-> TRUE, value |-> FallbackNews]

Call_get_news_with_cache(stock_code) ==
    /\ IF is_cache_valid(stock_code)
       THEN /\ news_call' =
                   [code |-> stock_code, at |-> news_now,
                    cache_before |-> _news_cache[stock_code],
                    fetch_before |-> _news_last_fetch[stock_code],
                    scraped |-> FALSE, new_news |-> NoEntry,
                    returned |-> _news_cache[stock_code]]
            /\ UNCHANGED <<_news_cache, _news_last_fetch>>
       ELSE \E new_news \in ScrapeResults :
               /\ StoreNews(stock_code, new_news)
               /\ news_call' =
                      [code |-> stock_code, at |-> news_now,
                       cache_before |-> _news_cache[stock_code],
                       fetch_before |-> _news_last_fetch[stock_code],
                       scraped |-> TRUE, new_news |-> new_news,
                       returned |-> NewsAfterScrape(stock_code, new_news)]
    /\ UNCHANGED <<news_now, newscache_frame>>

NextNewsCache ==
    \/ NewsTimePasses
    \/ \E stock_code \in StockCodes : Call_get_news_with_cache(stock_code)

SpecNewsCache == InitNewsCache /\ [][NextNewsCache]_vars

InitDynamics ==
    /\ pc = "dynamics"
    /\ CoreIdle
    /\ ServicesIdle

\* time passes between two requests
DynamicsTimePasses ==
    /\ dynamics_now < DynamicsTicks
    /\ dynamics_now' = dynamics_now + 1
    /\ UNCHANGED <<_dynamics_cache, _dynamics_last_fetch, dynamics_call, dynamics_frame>>

\* the cache check: a result and a time are there and the time is less
\* than DYNAMICS_CACHE_DURATION seconds old
DynamicsCacheFresh ==
    /\ _dynamics_cache.present
    /\ _dynamics_last_fetch.present
    /\ (dynamics_now - _dynamics_last_fetch.value) * 43200 < DYNAMICS_CACHE_DURATION

\* final_data of a fetch that went through
LiveResult == [present |-> TRUE, status |-> "success", last_update |-> dynamics_now]

\* the dict built in the except clause
SeededResult == [present |-> TRUE, status |-> "seeded", last_update |-> dynamics_now]

StoreDynamics_also_seeded(failed) ==
    /\ _dynamics_cache' = IF failed THEN SeededResult ELSE LiveResult
    /\ _dynamics_last_fetch' = [present |-> TRUE, value |-> dynamics_now]

\* Update Cache, reached only when no request raised and gainers is not empty
StoreDynamics(failed) ==
    IF failed
    THEN UNCHANGED <<_dynamics_cache, _dynamics_last_fetch>>
    ELSE /\ _dynamics_cache' = LiveResult
         /\ _dynamics_last_fetch' = [present |-> TRUE, value |-> dynamics_now]

\* a request: the fresh cache is served, else the scanner is asked up to
\* four times; the asking fails at any of them, or at the test of gainers
Call_get_market_dynamics ==
    /\ IF DynamicsCacheFresh
       THEN /\ dynamics_call' =
                   [at |-> dynamics_now, cache_before |-> _dynamics_cache,
                    fetch_before |-> _dynamics_last_fetch,
                    provider_calls |-> 0, failed |-> FALSE,
                    returned |-> _dynamics_cache]
            /\ UNCHANGED <<_dynamics_cache, _dynamics_last_fetch>>
       ELSE \E calls \in 1..ProviderCalls, failed \in BOOLEAN :
               /\ ~failed => calls = ProviderCalls
               /\ StoreDynamics(failed)
               /\ dynamics_call' =
                      [at |-> dynamics_now, cache_before |-> _dynamics_cache,
                       fetch_before |-> _dynamics_last_fetch,
                       provider_calls |-> calls, failed |-> failed,
                       returned |-> IF failed THEN SeededResult ELSE LiveResult]
    /\ UNCHANGED <<dynamics_now, dynamics_frame>>

NextDynamics ==
    \/ DynamicsTimePasses
    \/ Call_get_market_dynamics

SpecDynamics == InitDynamics /\ [][NextDynamics]_vars


(***************************************************************************)
(* Properties of detect_brokerage_flow (checked under SpecFlow)            *)
(***************************************************************************)
\* the arguments and the result of the call that returned
FlowReturned == pc = "flow_done"

\* the i-th phase rule as the eight rules are listed, taken alone
PhaseRuleHolds(i, c, v) ==
    CASE i = 1 -> v > 300
      [] i = 2 -> c > 700 /\ v > 180
      [] i = 3 -> c > 350 /\ v > 140
      [] i = 4 -> c > 120 /\ v > 110
      [] i = 5 -> -120 < c /\ c < 120 /\ v < 85
      [] i = 6 -> c < -150 /\ v > 150
      [] i = 7 -> c < -400 /\ v > 170
      [] i = 8 -> TRUE

\* the first rule, in the listed order, that holds
FirstPhaseRule(c, v) ==
    CHOOSE i \in 1..8 : PhaseRuleHolds(i, c, v) /\ \A j \in 1..(i - 1) : ~PhaseRuleHolds(j, c, v)

\* phase, overall sentiment and confidence of the i-th rule
PhaseRuleResult(i) ==
    CASE i = 1 -> <<"TRANSAKSI JUMBO / BLOCK TRADE", "STRONG BULLISH", 95>>
      [] i = 2 -> <<"MEGALODON MARKUP", "EXTREME BULLISH", 92>>
      [] i = 3 -> <<"STRONG MARKUP", "BULLISH", 88>>
      [] i = 4 -> <<"MARKUP", "MODERATE BULLISH", 75>>
      [] i = 5 -> <<"SILENT ACCUMULATION", "NEUTRAL BULLISH", 82>>
      [] i = 6 -> <<"DISTRIBUTION", "BEARISH", 85>>
      [] i = 7 -> <<"CAPITULATION / MARKDOWN", "EXTREME BEARISH", 90>>
      [] i = 8 -> <<"CONSOLIDATION", "NEUTRAL", 68>>

\* C1: for every (current_change, volume_ratio), detect_brokerage_flow returns
\* the phase, overall sentiment and confidence of the first of the eight rules,
\* in their order, whose strict comparisons hold; a value exactly on a
\* threshold (volume_ratio 3.0, 1.8, ...) does not satisfy the comparison.
C1_FirstRuleWins ==
    FlowReturned =>
        <<broker_flow.phase, broker_flow.overall_sentiment, broker_flow.confidence>>
            = PhaseRuleResult(FirstPhaseRule(flow_args.current_change, flow_args.volume_ratio))

\* volume_ratio exactly 3.0 with a change above 7.0: rule 1 fails, rule 2 wins
C1_Witness ==
    /\ FlowReturned
    /\ flow_args.volume_ratio = 300
    /\ flow_args.current_change = 701
    /\ broker_flow.phase = "MEGALODON MARKUP"

\* C5: the whale status is "entry" if change > 3.5 or the phase is block
\* trade; otherwise "accumulation" if |change| < 1.5 and volume_ratio < 0.9;
\* otherwise "distribution" if change < -3.0; otherwise "neutral".
C5_WhaleStatusPriority ==
    FlowReturned =>
        LET c == flow_args.current_change
            v == flow_args.volume_ratio
            s == broker_flow.whale.status
        IN  /\ (c > 350 \/ broker_flow.phase = "TRANSAKSI JUMBO / BLOCK TRADE")
                => s = "MEGALODON / WHALE ENTRY"
            /\ (~(c > 350 \/ broker_flow.phase = "TRANSAKSI JUMBO / BLOCK TRADE")
                /\ Abs(c) < 150 /\ v < 90)
                => s = "WHALE ACCUMULATION"
            /\ (~(c > 350 \/ broker_flow.phase = "TRANSAKSI JUMBO / BLOCK TRADE")
                /\ ~(Abs(c) < 150 /\ v < 90) /\ c < -300)
                => s = "WHALE DISTRIBUTION"
            /\ (~(c > 350 \/ broker_flow.phase = "TRANSAKSI JUMBO / BLOCK TRADE")
                /\ ~(Abs(c) < 150 /\ v < 90) /\ ~(c < -300))
                => s = "WHALE NEUTRAL"

\* a falling price on a block-trade volume: the phase alone gives "entry"
C5_Witness ==
    /\ FlowReturned
    /\ flow_args.current_change < -300
    /\ broker_flow.phase = "TRANSAKSI JUMBO / BLOCK TRADE"
    /\ broker_flow.whale.status = "MEGALODON / WHALE ENTRY"

\* C6: the retail status is "FOMO" if change > 4.0 and volume_ratio > 1.6;
\* otherwise "capitulation" if change < -4.0; otherwise "wait-and-see".
\* change = 8.0, volume_ratio = 2.0 gives megalodon markup, confidence 92,
\* whale status entry and retail status FOMO.
C6_RetailStatus ==
    FlowReturned =>
        LET c == flow_args.current_change
            v == flow_args.volume_ratio
            s == broker_flow.retail.status
        IN  /\ (c > 400 /\ v > 160) => s = "RITEL FOMO"
            /\ (~(c > 400 /\ v > 160) /\ c < -400) => s = "RITEL KAPITULASI"
            /\ (~(c > 400 /\ v > 160) /\ ~(c < -400)) => s = "RITEL BOSAN / WAIT AND SEE"
            /\ (c = 800 /\ v = 200) =>
                  /\ broker_flow.phase = "MEGALODON MARKUP"
                  /\ broker_flow.confidence = 92
                  /\ broker_flow.whale.status = "MEGALODON / WHALE ENTRY"
                  /\ s = "RITEL FOMO"

\* the worked example of the claim: change = 8.0, volume_ratio = 2.0
C6_Witness ==
    /\ FlowReturned
    /\ flow_args.current_change = 800
    /\ flow_args.volume_ratio = 200
    /\ broker_flow.retail.status = "RITEL FOMO"

FlowPhases ==
    {"TRANSAKSI JUMBO / BLOCK TRADE", "MEGALODON MARKUP", "STRONG MARKUP", "MARKUP",
     "SILENT ACCUMULATION", "DISTRIBUTION", "CAPITULATION / MARKDOWN", "CONSOLIDATION"}

\* the lookup as the claim states it
C7_ClaimedStatus(phase) ==
    CASE phase = "TRANSAKSI JUMBO / BLOCK TRADE" -> "TRANSAKSI JUMBO"
      [] phase = "SILENT ACCUMULATION"           -> "AKUMULASI SENYAP"
      [] phase = "DISTRIBUTION"                  -> "SMART MONEY KELUAR"
      [] phase = "CAPITULATION / MARKDOWN"       -> "SMART MONEY KELUAR"
      [] OTHER                                   -> "WAIT AND SEE"

\* C7 as stated: block trade gives "jumbo transaction", silent accumulation
\* gives "silent accumulation", distribution and capitulation/markdown give
\* "smart money exiting", every other phase gives "wait and see".
C7_AsClaimed ==
    FlowReturned => broker_flow.groups.status = C7_ClaimedStatus(broker_flow.phase)

\* the lookup of the amended claim
C7_AmendedStatus(phase) ==
    CASE phase = "TRANSAKSI JUMBO / BLOCK TRADE" -> "TRANSAKSI JUMBO"
      [] phase \in {"MEGALODON MARKUP", "STRONG MARKUP"} -> "SMART MONEY MASUK"
      [] phase = "MARKUP"                        -> "DUKUNGAN INSTITUSI"
      [] phase = "SILENT ACCUMULATION"           -> "AKUMULASI SENYAP"
      [] phase = "DISTRIBUTION"                  -> "SMART MONEY KELUAR"
      [] phase = "CAPITULATION / MARKDOWN"       -> "KAPITULASI (PANIC)"
      [] phase = "CONSOLIDATION"                 -> "WAIT AND SEE"

\* C7 (amended): the group status is a lookup keyed only by the matched phase:
\* block trade gives TRANSAKSI JUMBO, megalodon markup and strong markup give
\* SMART MONEY MASUK, markup gives DUKUNGAN INSTITUSI, silent accumulation
\* gives AKUMULASI SENYAP, distribution gives SMART MONEY KELUAR,
\* capitulation/markdown gives KAPITULASI (PANIC) and consolidation gives
\* WAIT AND SEE.
C7_StatusByPhase ==
    /\ \A ph \in FlowPhases : status_map(ph) = C7_AmendedStatus(ph)
    /\ FlowReturned =>
          /\ broker_flow.phase \in FlowPhases
          /\ broker_flow.groups.status = C7_AmendedStatus(broker_flow.phase)

\* a markup phase, whose status is not "wait and see"
C7_Witness ==
    /\ FlowReturned
    /\ broker_flow.phase = "MARKUP"
    /\ broker_flow.groups.status = "DUKUNGAN INSTITUSI"

(***************************************************************************)
(* Properties of generate_quant_warning (checked under SpecWarn)           *)
(***************************************************************************)
WarnReturned == pc = "warn_done"

\* the priority rank of a color: danger 0 < warning 1 < success 2 < primary 3
ColorRank(color) ==
    CASE color = "danger"  -> 0
      [] color = "warning" -> 1
      [] color = "success" -> 2
      [] color = "primary" -> 3

\* the rule group an entry comes from, by its level, in the order the groups
\* are evaluated: return band, volume, RSI, foreign flow, sentiment, volatility
GroupOfLevel(level) ==
    CASE level \in {"EXTREME BULLISH", "STRONG BULLISH", "MODERATE BULLISH",
                    "EXTREME BEARISH", "STRONG BEARISH", "MODERATE BEARISH"} -> 1
      [] level \in {"MEGA VOLUME / BLOCK TRADE", "VOLUME CONFIRMED",
                    "HIGH VOLUME SELL-OFF", "LOW VOLUME MOVE"} -> 2
      [] level \in {"RSI OVERBOUGHT", "RSI OVERSOLD"} -> 3
      [] level \in {"FOREIGN NET BUY KUAT", "FOREIGN NET SELL"} -> 4
      [] level \in {"SENTIMEN SANGAT POSITIF", "SENTIMEN SANGAT NEGATIF"} -> 5
      [] level = "VOLATILITAS EKSTREM" -> 6

\* the level of the return band the expected return r falls in, if any
ReturnBand(r) ==
    IF r > 4000 THEN {"EXTREME BULLISH"}
    ELSE IF 2000 < r /\ r <= 4000 THEN {"STRONG BULLISH"}
    ELSE IF 800 < r /\ r <= 2000 THEN {"MODERATE BULLISH"}
    ELSE IF r < -4000 THEN {"EXTREME BEARISH"}
    ELSE IF -4000 <= r /\ r < -2000 THEN {"STRONG BEARISH"}
    ELSE IF -2000 <= r /\ r < -800 THEN {"MODERATE BEARISH"}
    ELSE {}

\* every listed rule whose condition holds, each taken alone, by level
MatchingRules(a) ==
    LET r == a.expected_return
        v == a.volume_ratio
    IN  ReturnBand(r)
        \cup (IF v > 300 THEN {"MEGA VOLUME / BLOCK TRADE"} ELSE {})
        \cup (IF v > 200 /\ r > 1500 THEN {"VOLUME CONFIRMED"} ELSE {})
        \cup (IF v > 150 /\ r < -1000 THEN {"HIGH VOLUME SELL-OFF"} ELSE {})
        \cup (IF v < 70 /\ Abs(r) > 1000 THEN {"LOW VOLUME MOVE"} ELSE {})
        \cup (IF a.rsi > 7500 /\ r > 0 THEN {"RSI OVERBOUGHT"} ELSE {})
        \cup (IF a.rsi < 2500 /\ r < 0 THEN {"RSI OVERSOLD"} ELSE {})
        \cup (IF a.foreign_net_buy > 10000 THEN {"FOREIGN NET BUY KUAT"} ELSE {})
        \cup (IF a.foreign_net_buy < -10000 THEN {"FOREIGN NET SELL"} ELSE {})
        \cup (IF a.sentiment_score > 60 THEN {"SENTIMEN SANGAT POSITIF"} ELSE {})
        \cup (IF a.sentiment_score < -60 THEN {"SENTIMEN SANGAT NEGATIF"} ELSE {})
        \cup (IF a.atr_ratio > 180 THEN {"VOLATILITAS EKSTREM"} ELSE {})

\* the rules that fire: in the volume group the rules are alternatives, and
\* only the first of them, in the listed order, whose condition holds fires
FiredRules(a) ==
    LET r == a.expected_return
        v == a.volume_ratio
        m == MatchingRules(a)
    IN  m \ ((IF v > 300 THEN {"VOLUME CONFIRMED", "HIGH VOLUME SELL-OFF"} ELSE {}))

LevelsOf(d) == {d[i].level : i \in DOMAIN d}

\* C2: whenever at least one rule fires, no fired entry has a color of
\* strictly lower priority rank than the color of the main entry.
C2_MainHasMinimumRank ==
    (WarnReturned /\ details # <<>>) =>
        /\ \E i \in DOMAIN details :
              /\ details[i].level = main_warning.level
              /\ details[i].color = main_warning.color
              /\ details[i].message = main_warning.message
        /\ \A i \in DOMAIN details :
              ColorRank(details[i].color) >= ColorRank(main_warning.color)

\* a success entry of the return band is appended first, a danger entry of
\* the volatility rule last, and the danger entry is the main one
C2_Witness ==
    /\ WarnReturned
    /\ Len(details) >= 2
    /\ "STRONG BULLISH" \in LevelsOf(details)
    /\ main_warning.level = "VOLATILITAS EKSTREM"
    /\ main_warning.color = "danger"

\* C8 as stated: each listed rule whose condition holds contributes one
\* entry to the returned details, and no fired entry is dropped.
C8_AsClaimed ==
    WarnReturned =>
        \A level \in MatchingRules(warn_args) :
            Cardinality({i \in DOMAIN main_warning.details :
                            main_warning.details[i].level = level}) = 1

\* C8 (amended): the six rule groups are evaluated independently and each
\* contributes at most one entry (in the volume group only the first rule
\* whose condition holds); every rule that fires contributes exactly one
\* entry to the collected list, and the returned details are the first five
\* entries of that list in severity order, so an entry is dropped exactly
\* when all six groups fire, and it is one of the lowest priority.
C8_CollectedUpToFive ==
    WarnReturned =>
        LET n == Cardinality(FiredRules(warn_args))
            returned == main_warning.details
        IN  /\ LevelsOf(details) = FiredRules(warn_args)
            /\ Len(details) = n
            /\ Len(returned) = Min(5, n)
            /\ \A i \in DOMAIN returned : returned[i] = details[i]
            /\ \A i \in DOMAIN returned : \A j \in DOMAIN details :
                  j > Len(returned) =>
                      ColorRank(details[j].color) >= ColorRank(returned[i].color)

\* all six groups fire: six entries are collected and five are returned
C8_Witness ==
    /\ WarnReturned
    /\ Len(details) = 6
    /\ Len(main_warning.details) = 5

\* C9: among fired entries of equal priority rank the order of appending is
\* kept (return band, volume, RSI, foreign flow, sentiment, volatility), so
\* the main entry is the first appended of those of minimum rank; for
\* expected_return = 45, volume_ratio = 0.5 the bull-trap entry of the return
\* band and the low-volume entry both fire as danger and main is the former.
C9_TiesKeepAppendOrder ==
    (WarnReturned /\ details # <<>>) =>
        /\ \A i \in DOMAIN details :
              ColorRank(details[i].color) = ColorRank(main_warning.color)
                  => GroupOfLevel(main_warning.level) <= GroupOfLevel(details[i].level)
        /\ \A i, j \in DOMAIN details :
              (i < j /\ ColorRank(details[i].color) = ColorRank(details[j].color))
                  => GroupOfLevel(details[i].level) < GroupOfLevel(details[j].level)
        /\ (warn_args.expected_return = 4500 /\ warn_args.volume_ratio = 50) =>
              /\ \E i, j \in DOMAIN details :
                    /\ details[i].level = "EXTREME BULLISH" /\ details[i].color = "danger"
                    /\ details[j].level = "LOW VOLUME MOVE" /\ details[j].color = "danger"
              /\ main_warning.level = "EXTREME BULLISH"
              /\ main_warning.icon = "[WARN]"

\* the worked example of the claim, with a third danger entry behind it
C9_Witness ==
    /\ WarnReturned
    /\ warn_args.expected_return = 4500
    /\ warn_args.volume_ratio = 50
    /\ warn_args.atr_ratio > 180
    /\ main_warning.level = "EXTREME BULLISH"
    /\ Len(details) >= 3

\* C10: if no rule fires, and in particular for expected_return = 0,
\* volume_ratio = 1.0, rsi = 50, foreign_net_buy = 0, sentiment_score = 0,
\* atr_ratio = 1.0, the result is exactly the NEUTRAL fallback entry: level
\* "NEUTRAL", color secondary, no brokers, no detail entries, no secondary.
C10_NeutralFallback ==
    LET AllNeutral ==
            /\ warn_args.expected_return = 0 /\ warn_args.volume_ratio = 100
            /\ warn_args.rsi = 5000 /\ warn_args.foreign_net_buy = 0
            /\ warn_args.sentiment_score = 0 /\ warn_args.atr_ratio = 100
    IN  (WarnReturned /\ (MatchingRules(warn_args) = {} \/ AllNeutral)) =>
            /\ DOMAIN main_warning = {"level", "message", "color", "icon", "brokers", "details"}
            /\ main_warning.level = "NEUTRAL"
            /\ main_warning.color = "secondary"
            /\ main_warning.message = "Pasar ranging - tidak ada sinyal kuat"
            /\ main_warning.brokers = <<>>
            /\ main_warning.details = <<>>

\* the all-neutral call, made with a broker_activity map
C10_Witness ==
    /\ WarnReturned
    /\ warn_args.expected_return = 0 /\ warn_args.volume_ratio = 100
    /\ warn_args.rsi = 5000 /\ warn_args.foreign_net_buy = 0
    /\ warn_args.sentiment_score = 0 /\ warn_args.atr_ratio = 100
    /\ warn_args.broker_activity # NoBrokerActivity
    /\ main_warning.level = "NEUTRAL"

(***************************************************************************)
(* Properties of get_full_analysis (checked under SpecAnalysis)            *)
(***************************************************************************)
AnalysisReturned == pc = "analysis_done"

\* the label that goes with a bullish percentage
LabelOf(pct) ==
    IF pct >= 6000 THEN "Bullish" ELSE IF pct <= 4000 THEN "Bearish" ELSE "Neutral"

\* C3: on every path of get_full_analysis (ML path, heuristic fallback, the
\* untouched default) the label is "Bullish" iff bullish_pct >= 60, "Bearish"
\* iff bullish_pct <= 40 and "Neutral" otherwise, for the percentage the
\* handler computed and for the rounded percentage it returns.
C3_LabelMatchesPercentage ==
    AnalysisReturned =>
        /\ analysis.path \in {"ml", "fallback", "default"}
        /\ analysis.sentiment_text = LabelOf(analysis.bullish_pct)
        /\ response.sentiment_detail.sentiment
              = LabelOf(response.sentiment_detail.bullish_percentage)

\* the ML path lands exactly on 40.0 and the label is Bearish
C3_Witness ==
    /\ AnalysisReturned
    /\ analysis.path = "ml"
    /\ analysis.raw_prob_up > 6000
    /\ response.sentiment_detail.bullish_percentage = 4000
    /\ response.sentiment_detail.sentiment = "Bearish"

GroupStatuses ==
    {"TRANSAKSI JUMBO", "SMART MONEY MASUK", "DUKUNGAN INSTITUSI", "AKUMULASI SENYAP",
     "SMART MONEY KELUAR", "KAPITULASI (PANIC)", "WAIT AND SEE", "DANA BESAR KELUAR",
     "INSTITUSI / SMART MONEY"}

\* the override of the claim, on the baseline probability p
ClaimedOverride(p, status) ==
    IF status = "TRANSAKSI JUMBO" THEN Max(p + 2500, 7000)
    ELSE IF status \in {"SMART MONEY MASUK", "AKUMULASI SENYAP", "DUKUNGAN INSTITUSI"}
         THEN Max(p + 2000, 6500)
    ELSE IF status \in {"KAPITULASI (PANIC)", "WAIT AND SEE", "DANA BESAR KELUAR",
                        "SMART MONEY KELUAR"}
         THEN Min(p - 2000, 4000)
    ELSE p

\* C4: in the ML path the flow override is applied exactly once to the
\* baseline probability p of the second fit (the boost computed before it is
\* discarded): max(p + 25, 70) for TRANSAKSI JUMBO; max(p + 20, 65) for SMART
\* MONEY MASUK, AKUMULASI SENYAP, DUKUNGAN INSTITUSI; min(p - 20, 40) for
\* KAPITULASI (PANIC), WAIT AND SEE, DANA BESAR KELUAR, SMART MONEY KELUAR;
\* p unchanged for any other status.
C4_OverrideAppliedOnce ==
    /\ \A p \in RawProbs : \A st \in GroupStatuses :
          FlowOverride(p, st) = ClaimedOverride(p, st)
    /\ (AnalysisReturned /\ analysis.path = "ml") =>
          /\ analysis.raw_prob_up = analysis_env.ml.raw_prob
          /\ analysis.flow_prob_up
                = ClaimedOverride(analysis.raw_prob_up, broker_flow.groups.status)
          /\ ~analysis.has_catalyst =>
                analysis.bullish_pct
                    = Min(Max(ClaimedOverride(analysis.raw_prob_up,
                                              broker_flow.groups.status), 500), 9800)

\* a baseline of 50 % with smart money coming in: boosted once to 70 %, where
\* a second boost of the early value would give 90 %
C4_Witness ==
    /\ AnalysisReturned
    /\ analysis.path = "ml"
    /\ broker_flow.groups.status = "SMART MONEY MASUK"
    /\ analysis.raw_prob_up = 5000
    /\ analysis.flow_prob_up = 7000

----------------------------------------------------------------------------
\* Claims about the secondary list and the return bands

\* the string an entry contributes to the secondary list
SecondaryString(e) == e.icon \o " " \o e.message

\* the secondary list of the returned dict; the key is absent when one rule fired
SecondaryOf(w) == IF "secondary" \in DOMAIN w THEN w.secondary ELSE <<>>

ReturnEntries(d) == {i \in DOMAIN d : GroupOfLevel(d[i].level) = 1}

\* C12: the return group fires at most one entry, the one of the band the
\* expected return falls in, each boundary value falling in the band on the
\* side of zero; the extreme bullish entry is colored danger.
C12_ReturnBands ==
    WarnReturned =>
        /\ Cardinality(ReturnEntries(details)) <= 1
        /\ {details[i].level : i \in ReturnEntries(details)} = ReturnBand(warn_args.expected_return)
        /\ \A i \in ReturnEntries(details) :
               details[i].level = "EXTREME BULLISH" => details[i].color = "danger"

\* a return of exactly 40 fires the strong bullish entry
C12_Witness ==
    /\ WarnReturned
    /\ warn_args.expected_return = 4000
    /\ \E i \in DOMAIN details : details[i].level = "STRONG BULLISH"

----------------------------------------------------------------------------
\* Claims about the percentages and the provider failures of get_full_analysis

\* the group statuses that make the flow override lower prob_up
BearishStatuses ==
    {"KAPITULASI (PANIC)", "WAIT AND SEE", "DANA BESAR KELUAR", "SMART MONEY KELUAR"}

\* C13: in the ML path a detected catalyst sets prob_up to max(prob_up, 85)
\* after the flow override and before the clamp and the label, so the label
\* is "Bullish" with bullish_pct >= 85 even under the bearish override.
C13_CatalystForcesBullish ==
    (AnalysisReturned /\ analysis.has_catalyst) =>
        /\ analysis.path = "ml"
        /\ analysis.prob_up = Max(analysis.flow_prob_up, 8500)
        /\ analysis.bullish_pct >= 8500
        /\ analysis.sentiment_text = "Bullish"
        /\ response.sentiment_detail.sentiment = "Bullish"
        /\ response.sentiment_detail.bullish_percentage >= 8500

\* a catalyst after the bearish override brought prob_up to 40 or less
C13_Witness ==
    /\ AnalysisReturned
    /\ analysis.has_catalyst
    /\ broker_flow.groups.status \in BearishStatuses
    /\ analysis.flow_prob_up <= 4000
    /\ analysis.bullish_pct = 8500

\* C14: the bullish percentage is always within [5, 98], on the ML path and
\* on the heuristic fallback path.
C14_AsClaimed ==
    AnalysisReturned => (500 <= analysis.bullish_pct /\ analysis.bullish_pct <= 9800)

\* C14, what the handler does: the ML path clamps to [5, 98]; the fallback
\* gives 60 + 2 * current_change, 40 or 50 without clamping.
C14_ClampOnMLPathOnly ==
    AnalysisReturned =>
        /\ analysis.path = "ml" =>
               (500 <= analysis.bullish_pct /\ analysis.bullish_pct <= 9800)
        /\ analysis.path = "fallback" =>
               analysis.bullish_pct =
                   IF analysis.current_change > 50 THEN 6000 + 2 * analysis.current_change
                   ELSE IF analysis.current_change < -150 THEN 4000
                   ELSE 5000

\* the fallback after an ML error with a change above 19 %
C14_Witness ==
    /\ AnalysisReturned
    /\ analysis.path = "fallback"
    /\ analysis.current_change > 1900
    /\ analysis.bullish_pct > 9800
    /\ analysis.bearish_pct < 200

\* C15: bullish_pct + bearish_pct is exactly 100 on the ML path, on the
\* heuristic fallback and with the untouched default 50/50.
C15_PercentagesSumTo100 ==
    AnalysisReturned =>
        /\ analysis.path \in {"ml", "fallback", "default"}
        /\ analysis.bullish_pct + analysis.bearish_pct = 10000
        /\ analysis.path = "default" =>
               (analysis.bullish_pct = 5000 /\ analysis.bearish_pct = 5000)

\* the ML path clamped at 98 leaves 2 for the bearish side
C15_Witness ==
    /\ AnalysisReturned
    /\ analysis.path = "ml"
    /\ analysis.bullish_pct = 9800
    /\ analysis.bearish_pct = 200

\* the call of detect_brokerage_flow got the fetched features, and the answer
\* has status "success"
PipelineProceeds ==
    /\ flow_args = [current_change |-> analysis.current_change,
                    volume_ratio |-> analysis.vol_ratio,
                    vwap_deviation |-> analysis.vwap_dev]
    /\ broker_flow = detect_brokerage_flow(analysis.current_change,
                                           analysis.vol_ratio, analysis.vwap_dev)
    /\ response.status = "success"
    /\ response.daily_change = analysis.current_change

\* C20: when a provider call fails the feature takes its fixed default
\* (current_change 0.0; volume_ratio 1.0 and vwap_deviation 0.0), the
\* pipeline still runs on those values and the status is "success".
C20_AsClaimed ==
    AnalysisReturned =>
        /\ analysis_env.tv.kind = "error" => analysis.current_change = 0
        /\ analysis_env.yf.kind = "error" =>
               (analysis.vol_ratio = 100 /\ analysis.vwap_dev = 0)
        /\ PipelineProceeds

\* C20, what the handler does: a failing history request gives volume_ratio
\* 1.0 and vwap_deviation 0.0, a failing scanner request gives a random
\* current_change in [-2, 2], and the pipeline runs on those values.
C20_RandomChangeOnScannerFailure ==
    AnalysisReturned =>
        /\ analysis_env.tv.kind = "error" =>
               (-200 <= analysis.current_change /\ analysis.current_change <= 200)
        /\ analysis_env.tv.kind = "no_data" => analysis.current_change = 0
        /\ analysis_env.yf.kind \in {"error", "empty"} =>
               (analysis.vol_ratio = 100 /\ analysis.vwap_dev = 0)
        /\ PipelineProceeds

\* both providers fail and the answer reports a change that is not 0.0
C20_Witness ==
    /\ AnalysisReturned
    /\ analysis_env.tv.kind = "error"
    /\ analysis_env.yf.kind = "error"
    /\ analysis.current_change # 0
    /\ response.daily_change = analysis.current_change
    /\ response.status = "success"

----------------------------------------------------------------------------
\* Claims about _get_news_sentiment_score and forecast_advanced

NewsReturned == pc = "news_done"

\* some title among the ten newest cannot be read before the loop ends
ParsingFails(feed) ==
    feed.http = "200" /\ \E i \in 1..Min(10, Len(feed.items)) : ~feed.items[i].readable

\* C18: whenever the function reports a high-impact catalyst the score is at
\* least 85, and the score is always within [-100, 100], on every return
\* path, a provider or parsing failure part-way through the list included.
C18_AsClaimed ==
    NewsReturned =>
        /\ news_result.high_impact => news_result.news_score >= 8500
        /\ -10000 <= news_result.news_score /\ news_result.news_score <= 10000

\* C18, what the function does: the score is within [-100, 100]; a reported
\* catalyst comes with a score of at least 85 when every title was read, and
\* with the score 0 when a later title could not be read.
C18_FloorLostWhenParsingFails ==
    NewsReturned =>
        /\ -10000 <= news_result.news_score /\ news_result.news_score <= 10000
        /\ (news_result.high_impact /\ ~ParsingFails(news_feed)) =>
               news_result.news_score >= 8500
        /\ ParsingFails(news_feed) => news_result.news_score = 0
        /\ news_feed.http # "200" =>
               (news_result.news_score = 0 /\ ~news_result.high_impact)

\* a catalyst headline followed by an item without a title: (0, True)
C18_Witness ==
    /\ NewsReturned
    /\ Len(news_feed.items) = 2
    /\ news_feed.items[1].high
    /\ ~news_feed.items[2].readable
    /\ news_result.high_impact
    /\ news_result.news_score = 0

ForecastReturned == pc = "forecast_done"

\* the NEUTRAL fallback entry of a degraded answer
IsNeutralFallback(w) ==
    /\ w.level = "NEUTRAL"
    /\ w.color = "secondary"
    /\ DOMAIN w = {"level", "message", "color", "icon", "secondary"}

\* C19: forecast_advanced always answers HTTP 200 with a quant_signal_advanced
\* entry: "partial" with a NEUTRAL fallback when the history has fewer than
\* 120 bars or gives fewer than 80 sequences, "error_handled" with a NEUTRAL
\* fallback when a step raises, "success" with the result of
\* generate_quant_warning otherwise.
C19_AlwaysAnswers200 ==
    ForecastReturned =>
        LET env == forecast_env
            r == forecast_response
            short == env.hist_len < 120 \/ env.hist_len - 60 < 80
        IN  /\ r.http = 200
            /\ "quant_signal_advanced" \in DOMAIN r
            /\ r.status \in {"partial", "error_handled", "success"}
            /\ r.status = "partial" =>
                   (short /\ IsNeutralFallback(r.quant_signal_advanced))
            /\ r.status = "error_handled" =>
                   (env.raises # "none" /\ IsNeutralFallback(r.quant_signal_advanced))
            /\ r.status = "success" =>
                   /\ env.raises = "none" /\ ~short
                   /\ r.quant_signal_advanced =
                          generate_quant_warning(ForecastWarnArgs(env))
            /\ (env.raises = "none" /\ short) => r.status = "partial"
            /\ (env.raises = "none" /\ ~short) => r.status = "success"
            /\ (env.raises # "none" /\ ~short) => r.status = "error_handled"
            /\ env.raises \in {"json", "history"} => r.status = "error_handled"

\* 139 bars pass the first test and give 79 sequences: a partial answer
C19_Witness ==
    /\ ForecastReturned
    /\ forecast_env.hist_len = 139
    /\ forecast_env.raises = "none"
    /\ forecast_response.status = "partial"
    /\ forecast_response.http = 200

----------------------------------------------------------------------------
\* Claims about two calls in a row

\* C16: the whole result of detect_brokerage_flow is a function of
\* (current_change, volume_ratio) only: two calls with the same pair return
\* identical results whatever vwap_deviation is and whatever call came before.
C16_ResultDependsOnPairOnly ==
    (FlowReturned /\ flow_prev.called) =>
        ((/\ flow_args.current_change = flow_prev.args.current_change
          /\ flow_args.volume_ratio = flow_prev.args.volume_ratio)
            => broker_flow = flow_prev.result)

\* the same pair with two different vwap_deviation values, in a real phase
C16_Witness ==
    /\ FlowReturned
    /\ flow_prev.called
    /\ flow_args.current_change = flow_prev.args.current_change
    /\ flow_args.volume_ratio = flow_prev.args.volume_ratio
    /\ flow_args.vwap_deviation # flow_prev.args.vwap_deviation
    /\ flow_args.volume_ratio > 300
    /\ broker_flow = flow_prev.result

\* what broker_activity cannot change in an entry
Unannotated(e) == [level |-> e.level, color |-> e.color, icon |-> e.icon]

\* the entries without what broker_activity annotates
UnannotatedList(d) == [i \in DOMAIN d |-> Unannotated(d[i])]

\* the message m is the message base, alone or followed by the broker suffix
SuffixOnly(m, base, brokers) ==
    IF brokers = <<>> THEN m = base
    ELSE m = base \o " | Brokers: " \o JoinComma(brokers)

\* the call of the same scalars with broker_activity None
WithoutBrokers(a) == [a EXCEPT !.broker_activity = NoBrokerActivity]

\* the second call returned and the first one is kept
BothWarnCallsReturned == WarnReturned /\ warn_prev.called

\* the entries and the main entry of the two calls agree but for the brokers
\* lists and the message suffixes, and equal arguments give equal results
SameButAnnotation ==
    BothWarnCallsReturned =>
        LET plain == SortedDetails(WithoutBrokers(warn_args))
        IN  /\ WithoutBrokers(warn_args) = WithoutBrokers(warn_prev.args)
            /\ UnannotatedList(details) = UnannotatedList(warn_prev.details)
            /\ UnannotatedList(details) = UnannotatedList(plain)
            /\ \A i \in DOMAIN details :
                   SuffixOnly(details[i].message, plain[i].message, details[i].brokers)
            /\ Unannotated(main_warning) = Unannotated(warn_prev.result)
            /\ DOMAIN main_warning = DOMAIN warn_prev.result
            /\ details # <<>> => Unannotated(main_warning) = Unannotated(details[1])
            /\ warn_args = warn_prev.args =>
                   (main_warning = warn_prev.result /\ details = warn_prev.details)

\* a call leaves its arguments, broker_activity among them, as they were
CallKeepsArguments == pc = "warn_call" => warn_args' = warn_args

\* C17: generate_quant_warning is pure and broker_activity only annotates:
\* for fixed scalars, changing broker_activity never changes which rules fire,
\* the level, color or icon of an entry, the order of the entries or the main
\* entry; only the brokers lists and the broker suffix of the messages change,
\* and the function never modifies broker_activity.
C17_BrokerActivityOnlyAnnotates ==
    []SameButAnnotation /\ [][CallKeepsArguments]_vars

\* two calls with different broker_activity: the main entry has other brokers
C17_Witness ==
    /\ BothWarnCallsReturned
    /\ warn_args.broker_activity # warn_prev.args.broker_activity
    /\ Len(details) >= 3
    /\ details[1].brokers # warn_prev.details[1].brokers
    /\ main_warning.message # warn_prev.result.message
    /\ main_warning.level = warn_prev.result.level

----------------------------------------------------------------------------
\* Claims about the phases and statuses that can be returned

\* C21: detect_brokerage_flow never returns the phase CAPITULATION / MARKDOWN,
\* the overall sentiment EXTREME BEARISH, the confidence 90 or the group
\* status KAPITULASI (PANIC): every input with change < -4.0 and
\* volume_ratio > 1.7 already matches rule 1 or rule 6.
C21_CapitulationUnreachable ==
    FlowReturned =>
        /\ broker_flow.phase # "CAPITULATION / MARKDOWN"
        /\ broker_flow.overall_sentiment # "EXTREME BEARISH"
        /\ broker_flow.confidence # 90
        /\ broker_flow.groups.status # "KAPITULASI (PANIC)"
        /\ (flow_args.current_change < -400 /\ flow_args.volume_ratio > 170) =>
               \/ (flow_args.volume_ratio > 300
                      /\ broker_flow.phase = "TRANSAKSI JUMBO / BLOCK TRADE")
               \/ (flow_args.volume_ratio <= 300 /\ broker_flow.phase = "DISTRIBUTION")

\* an input of rule 7 that is no block trade: the phase is DISTRIBUTION
C21_Witness ==
    /\ FlowReturned
    /\ flow_args.current_change < -400
    /\ flow_args.volume_ratio > 170
    /\ flow_args.volume_ratio <= 300
    /\ broker_flow.phase = "DISTRIBUTION"

\* the group statuses that make the flow override raise prob_up
BullishStatuses ==
    {"SMART MONEY MASUK", "AKUMULASI SENYAP", "DUKUNGAN INSTITUSI", "TRANSAKSI JUMBO"}

\* the phases whose status raises prob_up
BullishPhases ==
    {"TRANSAKSI JUMBO / BLOCK TRADE", "MEGALODON MARKUP", "STRONG MARKUP", "MARKUP",
     "SILENT ACCUMULATION"}

\* C22: in the ML path the final label is never "Neutral": every group status
\* that can be returned is in one of the two override sets; without a catalyst
\* the label is "Bullish" exactly for block trade, megalodon markup, strong
\* markup, markup and silent accumulation, and "Bearish" for distribution and
\* consolidation, whatever the baseline probability.
C22_MLLabelNeverNeutral ==
    (AnalysisReturned /\ analysis.path = "ml") =>
        /\ broker_flow.groups.status \in BullishStatuses \cup BearishStatuses
        /\ analysis.sentiment_text # "Neutral"
        /\ response.sentiment_detail.sentiment # "Neutral"
        /\ ~analysis.has_catalyst =>
               /\ analysis.sentiment_text = "Bullish" <=> broker_flow.phase \in BullishPhases
               /\ analysis.sentiment_text = "Bearish" <=>
                      broker_flow.phase \in {"DISTRIBUTION", "CONSOLIDATION"}

\* consolidation with the classifier sure of a rise: the label is Bearish
C22_Witness ==
    /\ AnalysisReturned
    /\ analysis.path = "ml"
    /\ ~analysis.has_catalyst
    /\ broker_flow.phase = "CONSOLIDATION"
    /\ analysis.raw_prob_up = 10000
    /\ analysis.sentiment_text = "Bearish"

\* the whale statuses the endpoint matches on
MatchedWhaleStatuses ==
    {"MEGALODON ENTRY", "MARKET MAKER AKTIF", "ABSORPSI SIDEWAYS",
     "PENJUALAN DEFENSIF", "SHORT SELLING PREDATOR"}

\* the message is among the warnings
Warned(qw, message) == \E i \in DOMAIN qw : qw[i] = message

\* C28: no whale status that can be returned equals a whale status the
\* endpoint matches on, and the retail status is never KAPITULASI (PANIC); so
\* the whale factor takes its neutral branch, the retail contrarian factor is
\* never reported and the warnings "Smart Money Exit Zone" and "Kapitulasi
\* Ritel" are never emitted.
C28_WhaleAndRetailBranchesDead ==
    AnalysisReturned =>
        /\ broker_flow.whale.status \notin MatchedWhaleStatuses
        /\ broker_flow.retail.status # "KAPITULASI (PANIC)"
        /\ analysis.factors.whale = "Netral (+-0%)"
        /\ response.factors.whale = "Netral (+-0%)"
        /\ response.factors.retail \in {"FOMO Detected (+5%)", "Netral (+-0%)"}
        /\ ~Warned(response.quant_warnings, "Smart Money Exit Zone")
        /\ ~Warned(response.quant_warnings,
                   "Kapitulasi Ritel Terdeteksi - Peluang Contrarian")

\* a whale distribution with retail capitulation under -5 %, the 5-day
\* history read: the whale factor is neutral and neither warning is given
C28_Witness ==
    /\ AnalysisReturned
    /\ analysis_env.hist5.kind = "bars"
    /\ analysis_env.hist5.len = 5
    /\ analysis.current_change < -500
    /\ broker_flow.whale.status = "WHALE DISTRIBUTION"
    /\ broker_flow.retail.status = "RITEL KAPITULASI"
    /\ response.factors.whale = "Netral (+-0%)"
    /\ response.factors.retail = "Netral (+-0%)"

(***************************************************************************)
(* C23, C26, C30: the sector cache under concurrent requests               *)
(***************************************************************************)
\* the scans running in requests that came through the no-cache path
LockedScans ==
    Cardinality({r \in SectorRequests :
        sector_proc[r].pc = "fetching" /\ sector_proc[r].path = "nocache"})

\* C23, as the claim states it: at most one execution of
\* _fetch_and_update_sectors_sync is under way at any time.  It fails: two
\* requests that meet a stale cache both read the flag before either refresh
\* thread has set it, and a fresh cache with no sector is scanned in the
\* caller with no test at all.
C23_AsClaimed == Scans <= 1

\* C23, what the code guarantees: the scans of the no-cache path run one at
\* a time, under _sector_fetch_lock, whose holder is the request scanning.
C23_LockSerializesNoCachePath ==
    /\ LockedScans <= 1
    /\ \A r \in SectorRequests :
          _sector_fetch_lock = r <=>
              sector_proc[r].pc = "fetching" /\ sector_proc[r].path = "nocache"

\* two refresh threads scan at the same time
C23_Witness == sector_threads.fetching >= 2

\* the request r takes the step that leaves the point at
StepsFrom(r, at) == sector_proc[r].pc = at /\ sector_proc'[r].pc # at

C30_FailedFetchFrame ==
    /\ [](_sector_fetch_in_progress => Scans > 0)
    /\ [][Scans' < Scans => ~_sector_fetch_in_progress']_vars
    /\ [][\A p \in SectorRequests \cup {0} :
            SectorFetchFails(p) =>
                /\ _sector_cache' = _sector_cache
                /\ sector_fresh' = sector_fresh
                /\ p # 0 => /\ sector_proc'[p].sync_result = "None"
                            /\ sector_proc'[p].result = "fallback"]_vars

\* a scan failed in a request while a cache existed: the cache is still
\* there and the flag is down
C30_Witness ==
    \E r \in SectorRequests :
        /\ sector_proc[r].pc = "done"
        /\ sector_proc[r].sync_result = "None"
        /\ _sector_cache = "empty"
        /\ ~_sector_fetch_in_progress

(***************************************************************************)
(* C24, C25: the broadcast of the broker summary                           *)
(***************************************************************************)
\* a client joins the subscribers of the symbol in this step
NewSubscriber(s) == Subscribers(s)' \ Subscribers(s) # {}

\* C24, as the claim states it: a subscription to a symbol for which no
\* broadcast loop is running starts one.  It fails: the loop that ends
\* deletes broadcast_timers[symbol] only when it finds the set of the symbol
\* present and empty, so after a loop has made its 12 rounds, or has ended
\* on a key that unsubscribe had already deleted, the key stays and no later
\* subscription starts a loop.
C24_AsClaimed ==
    [][\A s \in Symbols :
          NewSubscriber(s) /\ ~broadcast_loop[s].running => broadcast_loop'[s].running]_vars

\* C24, what the code guarantees: a subscription starts a loop exactly when
\* broadcast_timers has no key for the symbol, whether a loop is running or
\* not; a running loop always has its key.
C24_LoopStartedOnlyWithoutTimer ==
    /\ [](\A s \in Symbols : broadcast_loop[s].running => s \in broadcast_timers)
    /\ [][\A s \in Symbols :
            NewSubscriber(s) =>
                /\ s \in broadcast_timers'
                /\ (~broadcast_loop[s].running /\ broadcast_loop'[s].running)
                       <=> s \notin broadcast_timers]_vars

\* a symbol has a subscriber, no loop is running for it and its key is
\* still in broadcast_timers: it is broadcast no more
C24_Witness ==
    \E s \in Symbols :
        /\ Subscribers(s) # {}
        /\ ~broadcast_loop[s].running
        /\ s \in broadcast_timers
        /\ s \notin emptied

\* C25, as the claim states it: broker_summary_data for a symbol reaches
\* only the clients subscribed to it.  It fails: the event is emitted to the
\* namespace with no recipient or room, so every connected client gets it.
C25_AsClaimed ==
    emitted.event = "broker_summary_data" => emitted.to \subseteq Subscribers(emitted.symbol)

\* C25, what the code guarantees: the data of a symbol are sent while it
\* has a subscriber, and reach every connected client, its subscribers
\* among them.
C25_EmittedToNamespace ==
    emitted.event = "broker_summary_data" =>
        /\ Subscribers(emitted.symbol) # {}
        /\ Subscribers(emitted.symbol) \subseteq emitted.to
        /\ emitted.to = connected

\* the data of a symbol reached a connected client that is not subscribed to it
C25_Witness ==
    /\ emitted.event = "broker_summary_data"
    /\ \E c \in emitted.to : c \notin Subscribers(emitted.symbol)

(***************************************************************************)
(* C27, C29: the news cache and the market dynamics cache                  *)
(***************************************************************************)
\* the last call of _get_news_with_cache scraped and got nothing
ScrapeFailed == news_call.scraped /\ ~news_call.new_news.present

\* the last call came less than 6 hours after the scrape that filled the cache
WithinSixHours ==
    /\ news_call.code # ""
    /\ news_call.cache_before.present
    /\ news_call.fetch_before.present
    /\ (news_call.at - news_call.fetch_before.value) * 3 < 6

\* C27: after a call whose scrape failed the two dicts hold for that stock
\* code what they held before, and the call returned the list cached
\* before, however old, or the fallback news when there was none, which is
\* not in the cache; a call less than 6 hours after the scrape that filled
\* the cache returned the cached list and did not scrape.
C27_FailedScrapeKeepsCache ==
    /\ ScrapeFailed =>
          /\ _news_cache[news_call.code] = news_call.cache_before
          /\ _news_last_fetch[news_call.code] = news_call.fetch_before
          /\ news_call.returned =
                IF news_call.cache_before.present
                THEN news_call.cache_before
                ELSE [present |-> TRUE, value |-> FallbackNews]
    /\ \A c \in StockCodes : _news_cache[c].present => _news_cache[c].value # FallbackNews
    /\ WithinSixHours =>
          /\ ~news_call.scraped
          /\ news_call.returned = news_call.cache_before

\* a scrape failed while the cache held a list more than 6 hours old, and
\* that list was returned
C27_Witness ==
    /\ ScrapeFailed
    /\ news_call.cache_before.present
    /\ (news_call.at - news_call.fetch_before.value) * 3 >= 6
    /\ news_call.returned = news_call.cache_before

\* the last request came less than 24 hours after the cached result
WithinOneDay ==
    /\ dynamics_call.cache_before.present
    /\ dynamics_call.fetch_before.present
    /\ (dynamics_call.at - dynamics_call.fetch_before.value) * 12 < 24

\* C29: _dynamics_cache is empty or a result of status "success"; after a
\* request whose fetch failed the cache and its time are what they were
\* and the answer is the seeded one; a request less than 24 hours after the
\* cached result is answered with it and calls the provider not once.
C29_OnlyLiveResultsCached ==
    /\ _dynamics_cache.present => _dynamics_cache.status = "success"
    /\ _dynamics_cache.present <=> _dynamics_last_fetch.present
    /\ dynamics_call.failed =>
          /\ _dynamics_cache = dynamics_call.cache_before
          /\ _dynamics_last_fetch = dynamics_call.fetch_before
          /\ dynamics_call.returned.status = "seeded"
    /\ WithinOneDay =>
          /\ dynamics_call.provider_calls = 0
          /\ dynamics_call.returned = dynamics_call.cache_before

\* a fetch failed while a result more than 24 hours old was cached: the
\* seeded data were served and the old result is still cached
C29_Witness ==
    /\ dynamics_call.failed
    /\ dynamics_call.cache_before.present
    /\ dynamics_call.returned.status = "seeded"
    /\ _dynamics_cache.status = "success"

============================================================================
